---- MODULE Spec2Model ----
(***************************************************************************)
(* A model of the "ort" three-way tree merge engine (src/merge-ort.c).     *)
(*                                                                         *)
(* Paths and labels are C strings: sequences of character codes, compared  *)
(* with strcmp.  A pointer to a string is a record naming its allocation,  *)
(* so that pointer equality and string equality stay different things.     *)
(* Object ids are tagged tuples; equal ids mean equal content.             *)
(***************************************************************************)
EXTENDS Integers, Sequences, FiniteSets, TLC

(***************************************************************************)
(* Characters and strings                                                  *)
(***************************************************************************)
SLASH == 47
TILDE == 126
UNDERSCORE == 95
DIGIT0 == 48

RECURSIVE StrCmp(_, _)
StrCmp(s, t) ==
    IF s = <<>> /\ t = <<>> THEN 0
    ELSE IF s = <<>> THEN -1
    ELSE IF t = <<>> THEN 1
    ELSE IF Head(s) < Head(t) THEN -1
    ELSE IF Head(s) > Head(t) THEN 1
    ELSE StrCmp(Tail(s), Tail(t))

\* strncmp(s, t, n) == 0: the first n characters agree, a string that ends
\* earlier counting as continued by NUL
StrNEq(s, t, n) ==
    \A i \in 1..n :
        (IF i <= Len(s) THEN s[i] ELSE 0) = (IF i <= Len(t) THEN t[i] ELSE 0)

NoStr == <<-1>>   \* a NULL char pointer

\* index of the last c in s, 0 when there is none (strrchr)
RECURSIVE StrRChr(_, _)
StrRChr(s, c) ==
    IF s = <<>> THEN 0
    ELSE IF s[Len(s)] = c THEN Len(s)
    ELSE StrRChr(SubSeq(s, 1, Len(s) - 1), c)

\* index of the first c in s at or after position from, 0 when none (strchr)
RECURSIVE StrChrFrom(_, _, _)
StrChrFrom(s, c, from) ==
    IF from > Len(s) THEN 0
    ELSE IF s[from] = c THEN from
    ELSE StrChrFrom(s, c, from + 1)

\* the sorted sequence of a set of distinct strings (string_list_sort)
RECURSIVE SortStrings(_)
SortStrings(S) ==
    IF S = {} THEN <<>>
    ELSE LET m == CHOOSE x \in S : \A y \in S : StrCmp(x, y) <= 0
         IN  <<m>> \o SortStrings(S \ {m})

(***************************************************************************)
(* Modes, object ids, versions                                             *)
(***************************************************************************)
S_IFDIR == 16384      \* 040000
S_IFREG == 33188      \* 0100644
S_IFREGX == 33261     \* 0100755
S_IFLNK == 40960      \* 0120000
S_IFGITLINK == 57344  \* 0160000

\* S_IFMT & mode
FileType(mode) ==
    IF mode = S_IFREG \/ mode = S_IFREGX THEN "reg"
    ELSE IF mode = S_IFLNK THEN "lnk"
    ELSE IF mode = S_IFGITLINK THEN "gitlink"
    ELSE IF mode = S_IFDIR THEN "dir"
    ELSE "none"

S_ISREG(mode) == FileType(mode) = "reg"
S_ISLNK(mode) == FileType(mode) = "lnk"
S_ISGITLINK(mode) == FileType(mode) = "gitlink"

NullOid == <<0>>
Blob(n) == <<1, n>>

NullVersion == [mode |-> 0, oid |-> NullOid]
oideq(a, b) == a = b

(***************************************************************************)
(* String pointers                                                         *)
(***************************************************************************)
\* the string a pointer points at
Str(p) == p.s
\* char root_dir[1] of merge_ort_nonrecursive_internal
root_dir == [org |-> "root_dir", s |-> <<>>]
NullPtr == [org |-> "NULL", s |-> NoStr]
\* a fullpath buffer allocated by setup_path_info
WalkPtr(s) == [org |-> "fullpath", s |-> s]

(***************************************************************************)
(* Input trees and the three-tree walk                                     *)
(* A tree is a function from the paths of its files to their versions.     *)
(***************************************************************************)
EmptyTree == [p \in {} |-> NullVersion]

Under(d, p) ==
    /\ Len(p) > Len(d) + 1
    /\ SubSeq(p, 1, Len(d)) = d
    /\ p[Len(d) + 1] = SLASH

FirstName(p) ==
    LET i == StrChrFrom(p, SLASH, 1)
    IN  IF i = 0 THEN p ELSE SubSeq(p, 1, i - 1)

SubTree(t, name) ==
    LET below == {p \in DOMAIN t : Under(name, p)}
        rel(p) == SubSeq(p, Len(name) + 2, Len(p))
    IN  [q \in {rel(p) : p \in below} |-> t[name \o <<SLASH>> \o q]]

\* the object id of a tree: its entries <<mode, basename, oid>> in basename
\* order, as write_tree lays them out
RECURSIVE TreeOid(_)
TreeOid(t) ==
    LET order == SortStrings({FirstName(p) : p \in DOMAIN t})
        entry(n) == IF n \in DOMAIN t THEN <<t[n].mode, n, t[n].oid>>
                    ELSE <<S_IFDIR, n, TreeOid(SubTree(t, n))>>
    IN  <<4, [i \in 1..Len(order) |-> entry(order[i])]>>

\* the name_entry a tree has for name: a file, a directory or nothing
NameEntry(t, name) ==
    IF name \in DOMAIN t THEN t[name]
    ELSE IF \E p \in DOMAIN t : Under(name, p)
         THEN [mode |-> S_IFDIR, oid |-> TreeOid(SubTree(t, name))]
         ELSE NullVersion

WalkNames(t) == {FirstName(p) : p \in (DOMAIN t[1]) \cup (DOMAIN t[2]) \cup (DOMAIN t[3])}

\* bit i of a 3-bit mask
Bit(m, i) == (m \div (2 ^ i)) % 2 = 1
MaskAnd(m, k) ==
    (IF Bit(m, 0) /\ Bit(k, 0) THEN 1 ELSE 0) +
    (IF Bit(m, 1) /\ Bit(k, 1) THEN 2 ELSE 0) +
    (IF Bit(m, 2) /\ Bit(k, 2) THEN 4 ELSE 0)
MaskOr(m, k) ==
    (IF Bit(m, 0) \/ Bit(k, 0) THEN 1 ELSE 0) +
    (IF Bit(m, 1) \/ Bit(k, 1) THEN 2 ELSE 0) +
    (IF Bit(m, 2) \/ Bit(k, 2) THEN 4 ELSE 0)

(***************************************************************************)
(* Path entries: struct merged_info / struct conflict_info                 *)
(***************************************************************************)
NullStages == <<NullVersion, NullVersion, NullVersion>>

StagesOf_base(names, filemask) ==
    [i \in 1..3 |-> IF Bit(filemask, i - 1) THEN names[1] ELSE NullVersion]

\* the loop of setup_path_info over the three stages: stage i takes the
\* name_entry i when bit i of filemask is set, and stays zeroed otherwise
StagesOf(names, filemask) ==
    [i \in 1..3 |-> IF Bit(filemask, i - 1) THEN names[i] ELSE NullVersion]

setup_path_info_copy(fullpath, current_dir_name, pathlen, names, merged_version, is_null, df_conflict, filemask, dirmask, resolved) ==
    [ ci |-> ~resolved,
      key |-> WalkPtr(fullpath),
      result |-> IF resolved THEN merged_version ELSE NullVersion,
      directory_name |-> [org |-> "xstrdup", s |-> Str(current_dir_name)],
      basename_offset |-> pathlen,
      is_null |-> resolved /\ is_null,
      clean |-> resolved,
      stages |-> IF resolved THEN NullStages ELSE StagesOf(names, filemask),
      pathnames |-> [i \in 1..3 |-> WalkPtr(fullpath)],
      df_conflict |-> ~resolved /\ df_conflict,
      path_conflict |-> FALSE,
      filemask |-> IF resolved THEN 0 ELSE filemask,
      dirmask |-> IF resolved THEN 0 ELSE dirmask,
      match_mask |-> 0,
      processed |-> FALSE ]

setup_path_info_mask(fullpath, current_dir_name, pathlen, names, merged_version, is_null, df_conflict, filemask, dirmask, resolved) ==
    [ ci |-> ~resolved,
      key |-> WalkPtr(fullpath),
      result |-> IF resolved THEN merged_version ELSE NullVersion,
      directory_name |-> current_dir_name,
      basename_offset |-> pathlen,
      is_null |-> resolved /\ is_null,
      clean |-> resolved,
      stages |-> IF resolved THEN NullStages ELSE StagesOf(names, filemask),
      pathnames |-> [i \in 1..3 |-> WalkPtr(fullpath)],
      df_conflict |-> ~resolved /\ df_conflict,
      path_conflict |-> FALSE,
      filemask |-> IF resolved THEN 0 ELSE MaskOr(filemask, dirmask),
      dirmask |-> IF resolved THEN 0 ELSE dirmask,
      match_mask |-> 0,
      processed |-> FALSE ]

\* setup_path_info: the entry stored for fullpath, a merged_info when
\* resolved, a conflict_info otherwise
setup_path_info(fullpath, current_dir_name, pathlen, names, merged_version, is_null, df_conflict, filemask, dirmask, resolved) ==
    [ ci |-> ~resolved,
      key |-> WalkPtr(fullpath),
      result |-> IF resolved THEN merged_version ELSE NullVersion,
      directory_name |-> current_dir_name,
      basename_offset |-> pathlen,
      is_null |-> resolved /\ is_null,
      clean |-> resolved,
      stages |-> IF resolved THEN NullStages ELSE StagesOf(names, filemask),
      pathnames |-> [i \in 1..3 |-> WalkPtr(fullpath)],
      df_conflict |-> ~resolved /\ df_conflict,
      path_conflict |-> FALSE,
      filemask |-> IF resolved THEN 0 ELSE filemask,
      dirmask |-> IF resolved THEN 0 ELSE dirmask,
      match_mask |-> 0,
      processed |-> FALSE ]

NoInfo == [paths |-> {}, bases |-> {}]

MatchMask_sides(side1_matches_mbase, side2_matches_mbase, sides_match) ==
    IF side1_matches_mbase \/ side2_matches_mbase \/ sides_match THEN 6 ELSE 0

\* ci->match_mask of a conflict entry with a file on some side
MatchMask(side1_matches_mbase, side2_matches_mbase, sides_match) ==
    IF side1_matches_mbase THEN 3
    ELSE IF side2_matches_mbase THEN 5
    ELSE IF sides_match THEN 6
    ELSE 0

\* collect_merge_info_callback for one name of the directory being walked,
\* with the recursion into its subtrees.  t is the triple of trees being
\* walked, rooted at the current directory.
RECURSIVE collect_merge_info_callback(_, _, _, _, _)

\* the body of the callback, names being the three name_entries of name
CallbackAt(current_dir_name, pathlen, t, name, iprd, names) ==
    LET mask == (IF names[1].mode # 0 THEN 1 ELSE 0) +
                (IF names[2].mode # 0 THEN 2 ELSE 0) +
                (IF names[3].mode # 0 THEN 4 ELSE 0)
        dirmask0 == (IF names[1].mode = S_IFDIR THEN 1 ELSE 0) +
                    (IF names[2].mode = S_IFDIR THEN 2 ELSE 0) +
                    (IF names[3].mode = S_IFDIR THEN 4 ELSE 0)
        filemask0 == mask - dirmask0
        mbase_null == ~Bit(mask, 0)
        side1_null == ~Bit(mask, 1)
        side2_null == ~Bit(mask, 2)
        side1_is_tree == Bit(dirmask0, 1)
        side2_is_tree == Bit(dirmask0, 2)
        side1_matches_mbase0 ==
            /\ ~side1_null /\ ~mbase_null
            /\ names[1].mode = names[2].mode
            /\ oideq(names[1].oid, names[2].oid)
        side2_matches_mbase0 ==
            /\ ~side2_null /\ ~mbase_null
            /\ names[1].mode = names[3].mode
            /\ oideq(names[1].oid, names[3].oid)
        sides_match ==
            /\ ~side1_null /\ ~side2_null
            /\ names[2].mode = names[3].mode
            /\ oideq(names[2].oid, names[3].oid)
        df_conflict == filemask0 # 0 /\ dirmask0 # 0
        fullpath == (IF pathlen = 0 THEN <<>> ELSE Str(current_dir_name) \o <<SLASH>>)
                    \o name
        one(e) == [paths |-> {<<fullpath, e>>}, bases |-> {}]
        resolved(v, is_null) ==
            one(setup_path_info(fullpath, current_dir_name, pathlen, names, v,
                                is_null, FALSE, filemask0, dirmask0, TRUE))
        \* Paths 1.B and 2.B: the masks with base and the matching side cleared
        p1 == ~iprd /\ side1_matches_mbase0
        p1B == p1 /\ ~side2_null /\ (side1_is_tree \/ side2_is_tree)
        filemask1 == IF p1B THEN MaskAnd(filemask0, 4) ELSE filemask0
        dirmask1 == IF p1B THEN MaskAnd(dirmask0, 4) ELSE dirmask0
        side1_matches_mbase == side1_matches_mbase0 /\ ~p1B
        p2 == ~iprd /\ side2_matches_mbase0
        p2B == p2 /\ ~side1_null /\ (side1_is_tree \/ side2_is_tree)
        filemask == IF p2B THEN MaskAnd(filemask1, 2) ELSE filemask1
        dirmask == IF p2B THEN MaskAnd(dirmask1, 2) ELSE dirmask1
        side2_matches_mbase == side2_matches_mbase0 /\ ~p2B
        ci0 == setup_path_info(fullpath, current_dir_name, pathlen, names,
                               NullVersion, FALSE, df_conflict, filemask,
                               dirmask, FALSE)
        ci == IF filemask # 0
              THEN [ci0 EXCEPT !.match_mask =
                        MatchMask(side1_matches_mbase, side2_matches_mbase,
                                  sides_match)]
              ELSE ci0
        possibly_renamed == dirmask = 3 \/ dirmask = 5
        sub == [i \in 1..3 |-> IF Bit(dirmask, i - 1)
                               THEN SubTree(t[i], name) ELSE EmptyTree]
        newlen == pathlen + Len(name) + 1
        below == IF dirmask # 0
                 THEN {collect_merge_info_callback(
                           WalkPtr(fullpath), newlen, sub, n,
                           iprd \/ possibly_renamed) : n \in WalkNames(sub)}
                 ELSE {}
    IN  IF side1_matches_mbase0 /\ side2_matches_mbase0
          THEN resolved(names[1], mbase_null)
        ELSE IF filemask0 = 7 /\ sides_match
          THEN resolved(names[2], FALSE)
        ELSE IF p1 /\ side2_null
          THEN NoInfo                                   \* Path 1.A
        ELSE IF p1 /\ ~p1B
          THEN resolved(names[3], side2_null)           \* Path 1.C
        ELSE IF p2 /\ side1_null
          THEN NoInfo                                   \* Path 2.A
        ELSE IF p2 /\ ~p2B
          THEN resolved(names[2], side1_null)           \* Path 2.C
        ELSE [paths |-> {<<fullpath, ci>>} \cup UNION {r.paths : r \in below},
              bases |-> (IF possibly_renamed THEN {fullpath} ELSE {})
                        \cup UNION {r.bases : r \in below}]

collect_merge_info_callback(current_dir_name, pathlen, t, name, iprd) ==
    CallbackAt(current_dir_name, pathlen, t, name, iprd,
               [i \in 1..3 |-> NameEntry(t[i], name)])

\* collect_merge_info: the walk of (merge_base, side1, side2) from the root
Collected(rs) ==
    LET prs == UNION {r.paths : r \in rs}
    IN  [paths |-> [k \in {pr[1] : pr \in prs} |->
                        (CHOOSE pr \in prs : pr[1] = k)[2]],
         bases |-> UNION {r.bases : r \in rs}]

collect_merge_info(merge_base, side1, side2) ==
    Collected({collect_merge_info_callback(root_dir, 0, <<merge_base, side1, side2>>,
                                           n, FALSE) :
                  n \in WalkNames(<<merge_base, side1, side2>>)})

(***************************************************************************)
(* Options and diagnostics                                                 *)
(***************************************************************************)
show(opt, v) == (opt.call_depth = 0 /\ opt.verbosity >= v) \/ opt.verbosity >= 5

\* output(): the message is appended to obuf when show() allows it
output(opt, obuf, v, msg) == IF show(opt, v) THEN Append(obuf, msg) ELSE obuf

\* err(): the message always reaches the error stream
err(obuf, msg) == Append(obuf, msg)

(***************************************************************************)
(* External collaborators of the content merge                             *)
(***************************************************************************)
\* ll_merge() followed by write_object_file(): ll is what the run's
\* environment makes of a textual merge that is not trivial.
\*   "clean"       no overlapping change, status 0
\*   "conflict"    overlapping changes, status 1 (or 0 when a side is favoured)
\*   "merge_error" ll_merge fails (status < 0)
\*   "write_error" ll_merge conflicts and the blob cannot be written
ll_merge(o, a, b, labels, variant, extra_marker_size, ll) ==
    IF ll = "merge_error" THEN [status |-> -1, buf |-> NullOid]
    ELSE IF ll = "clean" THEN [status |-> 0, buf |-> <<2, o, {a, b}>>]
    ELSE IF variant = "ours" THEN [status |-> 0, buf |-> <<5, o, a, b>>]
    ELSE IF variant = "theirs" THEN [status |-> 0, buf |-> <<5, o, b, a>>]
    ELSE [status |-> 1, buf |-> <<3, o, a, b, labels, extra_marker_size>>]

\* in_merge_bases() on submodule commits: commit 1 is the root, every other
\* commit descends from it, and the others are unrelated to each other
in_merge_bases(x, y) == x = y \/ x = Blob(1)

merge_submodule(opt, o, a, b) ==
    IF o = NullOid \/ a = NullOid \/ b = NullOid THEN [clean |-> 0, oid |-> a]
    ELSE IF ~in_merge_bases(o, a) \/ ~in_merge_bases(o, b) THEN [clean |-> 0, oid |-> a]
    ELSE IF in_merge_bases(a, b) THEN [clean |-> 1, oid |-> b]
    ELSE IF in_merge_bases(b, a) THEN [clean |-> 1, oid |-> a]
    ELSE [clean |-> 0, oid |-> a]

COLON == 58

merge_3way(opt, o, a, b, pathnames, extra_marker_size, ll) ==
    LET variant == IF opt.call_depth > 0 THEN "normal" ELSE opt.recursive_variant
        labels == IF pathnames[1] = pathnames[2] /\ pathnames[2] = pathnames[3]
                  THEN <<opt.ancestor, opt.branch1, opt.branch2>>
                  ELSE <<opt.ancestor \o <<COLON>> \o Str(pathnames[1]),
                         opt.branch1 \o <<COLON>> \o Str(pathnames[2]),
                         opt.branch2 \o <<COLON>> \o Str(pathnames[3])>>
    IN  ll_merge(o.oid, a.oid, b.oid, labels, variant, extra_marker_size, ll)

\* handle_content_merge: clean is the int the function returns (1, 0 or -1);
\* junk is what the caller's uninitialized result->oid holds when the
\* function returns before setting it; bug is set where BUG() is reached.
handle_content_merge(opt, o, a, b, pathnames, extra_marker_size, ll, junk) ==
    IF FileType(a.mode) # FileType(b.mode)
    THEN [clean |-> 0, result |-> IF S_ISREG(a.mode) THEN a ELSE b, bug |-> FALSE,
          failed |-> FALSE]
    ELSE
      LET keep == a.mode = b.mode \/ a.mode = o.mode
          mode == IF keep THEN b.mode ELSE a.mode
          clean0 == IF keep THEN 1 ELSE (IF b.mode = o.mode THEN 1 ELSE 0)
          done(c, oid) == [clean |-> c, result |-> [mode |-> mode, oid |-> oid],
                           bug |-> FALSE, failed |-> FALSE]
      IN  IF oideq(a.oid, b.oid) \/ oideq(a.oid, o.oid) THEN done(clean0, b.oid)
          ELSE IF oideq(b.oid, o.oid) THEN done(clean0, a.oid)
          ELSE IF S_ISREG(a.mode) THEN
              LET m == merge_3way(opt, o, a, b, pathnames, extra_marker_size, ll)
                  ret == m.status < 0 \/ ll = "write_error"
              IN  IF ret
                  THEN [clean |-> -1, result |-> [mode |-> mode, oid |-> junk],
                        bug |-> FALSE, failed |-> TRUE]
                  ELSE done(IF clean0 = 1 /\ m.status = 0 THEN 1 ELSE 0, m.buf)
          ELSE IF S_ISGITLINK(a.mode) THEN
              LET sm == merge_submodule(opt, o.oid, a.oid, b.oid)
              IN  done(sm.clean, sm.oid)
          ELSE IF S_ISLNK(a.mode) THEN
              IF opt.recursive_variant = "normal" THEN done(0, a.oid)
              ELSE IF opt.recursive_variant = "ours" THEN done(clean0, a.oid)
              ELSE done(clean0, b.oid)
          ELSE [clean |-> clean0, result |-> [mode |-> mode, oid |-> junk],
                bug |-> TRUE, failed |-> FALSE]

(***************************************************************************)
(* Rename detection: the pairs of get_diffpairs                            *)
(***************************************************************************)
\* blobs 1 and 2 are edits of one another, as are 3 and 4, and so on
SimClass(oid) == IF oid[1] = 1 THEN (oid[2] + 1) \div 2 ELSE 0

Similar(v, w, exact) ==
    /\ FileType(v.mode) = FileType(w.mode)
    /\ \/ v.oid = w.oid
       \/ ~exact /\ S_ISREG(v.mode) /\ SimClass(v.oid) # 0
                 /\ SimClass(v.oid) = SimClass(w.oid)

Basename(p) == SubSeq(p, StrRChr(p, SLASH) + 1, Len(p))

\* one pass of the similarity engine over the destinations, in path order
RECURSIVE MatchRenames(_, _, _, _, _)
MatchRenames(merge_base, side, dsts, srcs, exact) ==
    IF dsts = <<>> THEN {}
    ELSE LET d == Head(dsts)
             cand == {s \in srcs : Similar(merge_base[s], side[d], exact)}
             same == {s \in cand : Basename(s) = Basename(d)}
             pick == IF same # {} THEN Head(SortStrings(same))
                     ELSE Head(SortStrings(cand))
         IN  IF cand = {}
             THEN MatchRenames(merge_base, side, Tail(dsts), srcs, exact)
             ELSE {<<pick, d>>} \cup
                  MatchRenames(merge_base, side, Tail(dsts), srcs \ {pick}, exact)

DiffPtr(which, s) == [org |-> which, s |-> s]

\* get_diffpairs: the filepairs between merge_base and side, in the order of
\* their destination paths; status 'R' for a rename, 'A', 'D', 'M' otherwise.
\* Deleted and Added are the paths only one of the two trees has.
Deleted(merge_base, side) == (DOMAIN merge_base) \ (DOMAIN side)
Added(merge_base, side) == (DOMAIN side) \ (DOMAIN merge_base)

\* the renames of the exact pass
ExactRenames(opt, merge_base, side) ==
    IF opt.detect_renames
    THEN MatchRenames(merge_base, side, SortStrings(Added(merge_base, side)),
                      Deleted(merge_base, side), TRUE)
    ELSE {}

\* the renames of both passes, exact being those of the first
AllRenames(opt, merge_base, side, exact) ==
    IF opt.detect_renames
    THEN exact \cup
         MatchRenames(merge_base, side,
                      SortStrings(Added(merge_base, side) \ {m[2] : m \in exact}),
                      Deleted(merge_base, side) \ {m[1] : m \in exact}, FALSE)
    ELSE {}

\* the queue diffcore_std leaves for the renames it found
DiffQueue(merge_base, side, renames) ==
    LET deleted == Deleted(merge_base, side)
        added == Added(merge_base, side)
        modified == {p \in (DOMAIN side) \cap (DOMAIN merge_base) :
                        merge_base[p] # side[p]}
        src(d) == (CHOOSE m \in renames : m[2] = d)[1]
        order == SortStrings((deleted \ {m[1] : m \in renames}) \cup added \cup modified)
        pair(q) ==
            IF q \in {m[2] : m \in renames}
            THEN [one |-> DiffPtr("diff_one", src(q)), two |-> DiffPtr("diff_two", q),
                  status |-> "R", score |-> 0]
            ELSE [one |-> DiffPtr("diff_one", q), two |-> DiffPtr("diff_two", q),
                  status |-> IF q \in added THEN "A"
                             ELSE IF q \in deleted THEN "D" ELSE "M",
                  score |-> 0]
    IN  [i \in 1..Len(order) |-> pair(order[i])]

get_diffpairs(opt, merge_base, side) ==
    DiffQueue(merge_base, side,
              AllRenames(opt, merge_base, side, ExactRenames(opt, merge_base, side)))

(***************************************************************************)
(* Directory renames                                                       *)
(***************************************************************************)
NoDirs == [old_dir |-> NoStr, new_dir |-> NoStr]

\* the backwards scan of get_renamed_dir_portion: eo and en are the positions
\* reached in old_path and new_path after the pre-decrements
RECURSIVE ScanBack(_, _, _, _)
ScanBack(old_path, new_path, eo, en) ==
    IF new_path[en] = old_path[eo] /\ eo # 1 /\ en # 1
    THEN ScanBack(old_path, new_path, eo - 1, en - 1)
    ELSE <<eo, en>>

get_renamed_dir_portion(old_path, new_path) ==
    LET end_of_old == StrRChr(old_path, SLASH)
        end_of_new == StrRChr(new_path, SLASH)
    IN  IF end_of_old = 0 THEN NoDirs
        ELSE IF end_of_new = 0
        THEN [old_dir |-> SubSeq(old_path, 1, end_of_old - 1), new_dir |-> <<>>]
        ELSE LET at == ScanBack(old_path, new_path, end_of_old - 1, end_of_new - 1)
                 eo == at[1]
                 en == at[2]
             IN  IF eo = 1 /\ en = 1 /\ old_path[eo] = new_path[en] THEN NoDirs
                 ELSE IF en = 1 /\ eo # 1 /\ old_path[eo - 1] = SLASH
                 THEN [old_dir |-> SubSeq(old_path, 1, eo - 2), new_dir |-> <<>>]
                 ELSE [old_dir |-> SubSeq(old_path, 1,
                                          StrChrFrom(old_path, SLASH, eo + 1) - 1),
                       new_dir |-> SubSeq(new_path, 1,
                                          StrChrFrom(new_path, SLASH, en + 1) - 1)]

\* the order in which a hash map with seed h iterates the keys S
HashOrder(S, h) ==
    LET sorted == SortStrings(S)
        n == Len(sorted)
        rot == IF n = 0 THEN 0 ELSE (h \div 2) % n
        rotated == [i \in 1..n |-> sorted[((i - 1 + rot) % n) + 1]]
    IN  IF h % 2 = 1 THEN [i \in 1..n |-> rotated[n + 1 - i]] ELSE rotated

\* the second loop of get_directory_renames over one directory's tally, the
\* candidates visited in the order order: <<max, bad_max, best>>
RECURSIVE TallyWinner(_, _, _)
TallyWinner(count, order, acc) ==
    IF order = <<>> THEN acc
    ELSE LET c == count[Head(order)]
             next == IF c = acc[1] THEN <<acc[1], acc[1], acc[3]>>
                     ELSE IF c > acc[1] THEN <<c, acc[2], Head(order)>>
                     ELSE acc
         IN  TallyWinner(count, Tail(order), next)

\* get_directory_renames: old directory -> dir_rename_info
\* the first loop of get_directory_renames: per pair, the directory portions
\* of a rename (NoDirs for any other pair)
DirPortions(pairs) ==
    [i \in 1..Len(pairs) |->
        IF pairs[i].status = "R"
        THEN get_renamed_dir_portion(Str(pairs[i].one), Str(pairs[i].two))
        ELSE NoDirs]

\* the dir_rename_info of the tally result win = <<max, bad_max, best>>
DirRenameInfo(win) ==
    IF win[2] = win[1]
    THEN [non_unique_new_dir |-> TRUE, new_dir |-> <<>>]
    ELSE [non_unique_new_dir |-> FALSE, new_dir |-> win[3]]

\* the second loop of get_directory_renames over the portions of the pairs
DirRenamesOf(portion, h) ==
    LET renamed == {i \in DOMAIN portion : portion[i].old_dir # NoStr}
        old_dirs == {portion[i].old_dir : i \in renamed}
        possible_new_dirs(d) == {portion[i].new_dir :
                                    i \in {j \in renamed : portion[j].old_dir = d}}
        count(d) == [n \in possible_new_dirs(d) |->
                         Cardinality({i \in renamed : portion[i] =
                                          [old_dir |-> d, new_dir |-> n]})]
    IN  [d \in old_dirs |->
            DirRenameInfo(TallyWinner(count(d), HashOrder(possible_new_dirs(d), h),
                                      <<0, 0, NoStr>>))]

get_directory_renames(pairs, h) == DirRenamesOf(DirPortions(pairs), h)

\* apply_dir_rename: NoStr when the directory has no unique destination
apply_dir_rename(old_dir, info, old_path) ==
    IF info.non_unique_new_dir THEN NoStr
    ELSE LET oldlen == Len(old_dir) + (IF Len(info.new_dir) = 0 THEN 1 ELSE 0)
         IN  info.new_dir \o SubSeq(old_path, oldlen + 1, Len(old_path))

\* check_dir_renamed: the nearest ancestor of path that is a key of
\* dir_renames, NoStr when there is none
RECURSIVE check_dir_renamed(_, _)
check_dir_renamed(path, dir_renames) ==
    LET end == StrRChr(path, SLASH)
        temp == SubSeq(path, 1, end - 1)
    IN  IF end = 0 THEN NoStr
        ELSE IF temp \in DOMAIN dir_renames THEN temp
        ELSE check_dir_renamed(temp, dir_renames)

\* compute_collisions: new path -> collision_info
compute_collisions(dir_renames, pairs) ==
    LET moved == {i \in 1..Len(pairs) :
                     /\ pairs[i].status \in {"A", "R"}
                     /\ check_dir_renamed(Str(pairs[i].two), dir_renames) # NoStr}
        dest(i) == LET d == check_dir_renamed(Str(pairs[i].two), dir_renames)
                   IN  apply_dir_rename(d, dir_renames[d], Str(pairs[i].two))
        applied == {i \in moved : dest(i) # NoStr}
    IN  [n \in {dest(i) : i \in applied} |->
            [source_files |-> {Str(pairs[i].two) : i \in {j \in applied : dest(j) = n}},
             reported_already |-> FALSE]]

path_in_way(paths, path, side_mask) ==
    IF path \notin DOMAIN paths THEN FALSE
    ELSE LET ci == paths[path]
         IN  ci.clean \/ MaskAnd(side_mask, MaskOr(ci.filemask, ci.dirmask)) # 0

\* handle_path_level_conflicts after new_path = apply_dir_rename(...)
PathLevelConflicts(opt, paths, side_index, collisions, obuf, new_path) ==
    LET c_info == collisions[new_path]
        keep(np, col, ob, bug) ==
            [new_path |-> np, collisions |-> col, obuf |-> ob, bug |-> bug]
        reported == [collisions EXCEPT ![new_path].reported_already = TRUE]
    IN  IF new_path = NoStr
        THEN keep(NoStr, collisions,
                  output(opt, obuf, 1, "CONFLICT (directory rename split)"), FALSE)
        ELSE IF new_path \notin DOMAIN collisions
        THEN keep(NoStr, collisions, obuf, TRUE)
        ELSE IF c_info.reported_already
        THEN keep(NoStr, collisions, obuf, FALSE)
        ELSE IF path_in_way(paths, new_path, 2 ^ side_index)
        THEN keep(NoStr, reported,
                  output(opt, obuf, 1, "CONFLICT (implicit dir rename): in the way"),
                  FALSE)
        ELSE IF Cardinality(c_info.source_files) > 1
        THEN keep(NoStr, reported,
                  output(opt, obuf, 1, "CONFLICT (implicit dir rename): more than one"),
                  FALSE)
        ELSE keep(new_path, collisions, obuf, FALSE)

\* handle_path_level_conflicts: the new name, or NoStr on a conflict
handle_path_level_conflicts(opt, paths, path, side_index, old_dir, dr_info, collisions, obuf) ==
    PathLevelConflicts(opt, paths, side_index, collisions, obuf,
                       apply_dir_rename(old_dir, dr_info, path))

\* *clean_merge &= (new_path != NULL) for the result r of
\* handle_path_level_conflicts
ClearedBy(clean, r) ==
    [new_path |-> r.new_path, collisions |-> r.collisions, obuf |-> r.obuf,
     bug |-> r.bug, clean |-> clean /\ r.new_path # NoStr]

\* check_for_directory_rename after rename_info = check_dir_renamed(...)
DirectoryRenameAt(opt, paths, path, side_index, dir_renames, dir_rename_exclusions, collisions, clean, obuf, rename_info) ==
    LET none == [new_path |-> NoStr, collisions |-> collisions, obuf |-> obuf,
                 bug |-> FALSE, clean |-> clean]
    IN  IF DOMAIN dir_renames = {} THEN none
        ELSE IF rename_info = NoStr THEN none
        ELSE IF rename_info \in DOMAIN dir_rename_exclusions
        THEN [none EXCEPT !.obuf = output(opt, obuf, 1, "WARNING: Avoiding applying rename")]
        ELSE ClearedBy(clean,
                 handle_path_level_conflicts(opt, paths, path, side_index,
                     rename_info, dir_renames[rename_info], collisions, obuf))

\* check_for_directory_rename; clean is *clean_merge
check_for_directory_rename(opt, paths, path, side_index, dir_renames, dir_rename_exclusions, collisions, clean, obuf) ==
    DirectoryRenameAt(opt, paths, path, side_index, dir_renames,
                      dir_rename_exclusions, collisions, clean, obuf,
                      check_dir_renamed(path, dir_renames))

(***************************************************************************)
(* Applying a directory rename to one path                                 *)
(***************************************************************************)
Parent(cur_path) ==
    LET last_slash == StrRChr(cur_path, SLASH)
    IN  IF last_slash = 0 THEN <<>> ELSE SubSeq(cur_path, 1, last_slash - 1)

ParentNamePtr(s) == [org |-> "parent_name", s |-> s]
NewPathPtr(s) == [org |-> "new_path", s |-> s]

\* dirs_to_insert of apply_directory_rename_modifications, innermost first;
\* a last element NoStr says the while (1) loop never finds a parent
RECURSIVE MissingParents(_, _)
MissingParents(paths, cur_path) ==
    LET parent_name == Parent(cur_path)
    IN  IF parent_name \in DOMAIN paths THEN <<>>
        ELSE IF parent_name = <<>> THEN <<NoStr>>
        ELSE <<parent_name>> \o MissingParents(paths, parent_name)

BasenameOffset(parent) == IF Len(parent) > 0 THEN Len(parent) + 1 ELSE 0

\* a calloc'ed conflict_info for an inserted directory
DirInfo(cur_dir, parent_name, dirmask) ==
    [ ci |-> TRUE, key |-> ParentNamePtr(cur_dir), result |-> NullVersion,
      directory_name |-> parent_name,
      basename_offset |-> BasenameOffset(Str(parent_name)),
      is_null |-> FALSE, clean |-> FALSE, stages |-> NullStages,
      pathnames |-> <<NullPtr, NullPtr, NullPtr>>, df_conflict |-> FALSE,
      path_conflict |-> FALSE, filemask |-> 0, dirmask |-> dirmask,
      match_mask |-> 0, processed |-> FALSE ]

Put(paths, k, v) == [q \in (DOMAIN paths) \cup {k} |-> IF q = k THEN v ELSE paths[q]]
Remove(paths, k) == [q \in (DOMAIN paths) \ {k} |-> paths[q]]

\* apply_directory_rename_modifications after its while (1) loop has left
\* dirs_to_insert
ApplyWithDirs(paths, pair, new_path, dirs_to_insert) ==
    LET old_path == Str(pair.two)
        ci == paths[old_path]
        n == Len(dirs_to_insert)
        found == paths[Parent(IF n = 0 THEN new_path ELSE dirs_to_insert[n])].key
        parent_of(k) == IF k = n THEN found ELSE ParentNamePtr(dirs_to_insert[k + 1])
        inserted == {dirs_to_insert[k] : k \in 1..n}
        with_dirs == [q \in (DOMAIN paths) \cup inserted |->
                         IF q \in inserted
                         THEN LET k == CHOOSE j \in 1..n : dirs_to_insert[j] = q
                              IN  DirInfo(q, parent_of(k), ci.filemask)
                         ELSE paths[q]]
        parent_name == IF n = 0 THEN found ELSE ParentNamePtr(dirs_to_insert[1])
        removed == Remove(with_dirs, old_path)
        moved == [ci EXCEPT !.directory_name = parent_name,
                            !.basename_offset = BasenameOffset(Str(parent_name))]
        new_ci == removed[new_path]
        index == ci.filemask \div 2
        merged == [new_ci EXCEPT
                      !.filemask = MaskOr(new_ci.filemask, ci.filemask),
                      !.pathnames[index + 1] = ci.pathnames[index + 1],
                      !.stages[index + 1] = ci.stages[index + 1]]
        out(ps, pc) == [paths |-> ps, pc |-> pc,
                        pair |-> IF pc = "ok"
                                 THEN [pair EXCEPT !.two = NewPathPtr(new_path)]
                                 ELSE pair]
    IN  IF old_path \notin DOMAIN paths THEN out(paths, "crash")
        ELSE IF n > 0 /\ dirs_to_insert[n] = NoStr THEN out(paths, "hang")
        ELSE IF new_path \notin DOMAIN removed
        THEN out(Put(removed, new_path, [moved EXCEPT !.key = NewPathPtr(new_path)]), "ok")
        ELSE IF ~(ci.filemask = 2 \/ ci.filemask = 4) THEN out(removed, "abort")
        ELSE IF MaskAnd(new_ci.filemask, ci.filemask) # 0 THEN out(removed, "abort")
        ELSE IF new_ci.clean THEN out(removed, "abort")
        ELSE out(Put(removed, new_path, merged), "ok")

\* apply_directory_rename_modifications: pc is "ok", "crash" (NULL item),
\* "hang" (the parent search does not end) or "abort" (an assert fails)
apply_directory_rename_modifications(paths, pair, new_path) ==
    ApplyWithDirs(paths, pair, new_path, MissingParents(paths, new_path))

(***************************************************************************)
(* collect_renames and the sort of the combined queue                      *)
(***************************************************************************)
\* the loop of collect_renames from pair i on; st carries paths, the
\* collisions, the clean flag, the diagnostics, the result queue and pc
\* p->score = side_index; result->queue[result->nr++] = p
Queued(st, p, side_index) ==
    [st EXCEPT !.combined = Append(st.combined, [p EXCEPT !.score = side_index])]

\* the pair p once apply_directory_rename_modifications has returned a
Applied(st, a, side_index) ==
    IF a.pc # "ok" THEN [st EXCEPT !.paths = a.paths, !.pc = a.pc]
    ELSE Queued([st EXCEPT !.paths = a.paths], a.pair, side_index)

\* the pair p once check_for_directory_rename has returned c
Checked(st, p, side_index, c) ==
    LET st1 == [st EXCEPT !.collisions = c.collisions, !.clean = c.clean,
                          !.obuf = c.obuf,
                          !.pc = IF c.bug THEN "abort" ELSE "ok"]
    IN  IF c.bug THEN st1
        ELSE IF p.status # "R" /\ c.new_path = NoStr THEN st1
        ELSE IF c.new_path = NoStr THEN Queued(st1, p, side_index)
        ELSE Applied(st1,
                     apply_directory_rename_modifications(st1.paths, p, c.new_path),
                     side_index)

\* one round of the loop of collect_renames, for the pair p
CollectPair(opt, st, side_index, p, dir_renames_for_side, rename_exclusions) ==
    IF p.status \notin {"A", "R"} THEN st
    ELSE Checked(st, p, side_index,
                 check_for_directory_rename(opt, st.paths, Str(p.two), side_index,
                     dir_renames_for_side, rename_exclusions, st.collisions,
                     st.clean, st.obuf))

RECURSIVE CollectFrom(_, _, _, _, _, _, _)
CollectFrom(opt, st, side_index, side_pairs, dir_renames_for_side, rename_exclusions, i) ==
    IF i > Len(side_pairs) \/ st.pc # "ok" THEN st
    ELSE CollectFrom(opt,
                     CollectPair(opt, st, side_index, side_pairs[i],
                                 dir_renames_for_side, rename_exclusions),
                     side_index, side_pairs, dir_renames_for_side,
                     rename_exclusions, i + 1)

\* return clean of collect_renames, r being the state its loop leaves
Returned(clean, r) == [r EXCEPT !.clean = clean /\ r.clean]

collect_renames(opt, st, side_index, side_pairs, dir_renames_for_side, rename_exclusions) ==
    Returned(st.clean,
             CollectFrom(opt,
                 [st EXCEPT !.clean = TRUE,
                            !.collisions = compute_collisions(dir_renames_for_side,
                                                              side_pairs)],
                 side_index, side_pairs, dir_renames_for_side, rename_exclusions, 1))

compare_pairs(a, b) ==
    LET cmp == StrCmp(Str(a.one), Str(b.one))
    IN  IF cmp # 0 THEN cmp ELSE a.score - b.score

\* QSORT(combined->queue, combined->nr, compare_pairs): insertion of each
\* pair before the first one that compares greater
RECURSIVE SortPairs(_)
SortPairs(q) ==
    IF q = <<>> THEN <<>>
    ELSE LET rest == SortPairs(Tail(q))
             k == Cardinality({j \in 1..Len(rest) : compare_pairs(rest[j], Head(q)) < 0})
         IN  SubSeq(rest, 1, k) \o <<Head(q)>> \o SubSeq(rest, k + 1, Len(rest))

(***************************************************************************)
(* process_renames                                                         *)
(***************************************************************************)
\* the diagnostics a content merge leaves behind
MergeErr(obuf, r) == IF r.failed THEN err(obuf, "error: content merge failed") ELSE obuf

\* a usable struct conflict_info at path k
HasInfo(paths, k) == k \in DOMAIN paths /\ paths[k].ci

MoveStage_unnamed(paths, newpath, oldinfo, index, oldpath) ==
    [paths EXCEPT ![newpath].stages[index + 1] = oldinfo.stages[index + 1],
                  ![newpath].filemask = MaskOr(paths[newpath].filemask, 2 ^ index)]

\* normal rename: the stage index of oldinfo is copied over that of the
\* entry at newpath, with its filemask bit and its pathname
MoveStage(paths, newpath, oldinfo, index, oldpath) ==
    [paths EXCEPT ![newpath].stages[index + 1] = oldinfo.stages[index + 1],
                  ![newpath].filemask = MaskOr(paths[newpath].filemask, 2 ^ index),
                  ![newpath].pathnames[index + 1] = oldpath]

\* the loop of process_renames from pair i on
RECURSIVE ProcessFrom(_, _, _, _, _, _)
ProcessFrom(opt, st, renames, i, ll, junk) ==
    IF i > Len(renames) \/ st.pc # "ok" THEN st
    ELSE
      LET pair == renames[i]
          paths == st.paths
          oldpath == Str(pair.one)
          newpath == Str(pair.two)
          oldinfo == paths[oldpath]
          newinfo == paths[newpath]
          twice == i + 1 <= Len(renames) /\ oldpath = Str(renames[i + 1].one)
          otherpath == Str(renames[i + 1].two)
          extra == 1 + 2 * opt.call_depth
          \* rename/rename(1to1)
          one2one ==
              IF newpath \notin DOMAIN paths THEN [st EXCEPT !.pc = "crash"]
              ELSE [st EXCEPT
                       !.paths = [paths EXCEPT
                           ![newpath].stages[1] = oldinfo.stages[1],
                           ![newpath].filemask = MaskOr(paths[newpath].filemask, 1),
                           ![oldpath].is_null = TRUE,
                           ![oldpath].clean = TRUE]]
          \* rename/rename(1to2)
          m12 == handle_content_merge(opt, oldinfo.stages[1], newinfo.stages[2],
                     paths[otherpath].stages[3],
                     <<pair.one, pair.two, renames[i + 1].two>>, extra, ll, junk)
          one2two ==
              IF ~HasInfo(paths, newpath) \/ ~HasInfo(paths, otherpath)
              THEN [st EXCEPT !.pc = "crash"]
              ELSE IF m12.bug THEN [st EXCEPT !.pc = "abort"]
              ELSE [st EXCEPT
                       !.obuf = MergeErr(st.obuf, m12),
                       !.paths = [paths EXCEPT
                           ![newpath].stages[2] = m12.result,
                           ![newpath].path_conflict = TRUE,
                           ![otherpath].stages[3] = m12.result,
                           ![otherpath].path_conflict = TRUE,
                           ![oldpath].path_conflict = TRUE]]
          target_index == pair.score
          other_source_index == 3 - target_index
          old_sidemask == other_source_index * 2
          source_deleted == oldinfo.filemask = 1
          collision == MaskAnd(newinfo.filemask, old_sidemask) # 0
          gone == [paths EXCEPT ![oldpath].is_null = TRUE, ![oldpath].clean = TRUE]
          pathnames == [k \in 1..3 |-> IF k = target_index + 1 THEN pair.two ELSE pair.one]
          madd == handle_content_merge(opt, gone[oldpath].stages[1],
                      gone[Str(pathnames[2])].stages[2],
                      gone[Str(pathnames[3])].stages[3], pathnames, extra, ll, junk)
          rename_add ==
              IF madd.bug THEN [st EXCEPT !.pc = "abort"]
              ELSE [st EXCEPT
                       !.obuf = MergeErr(st.obuf, madd),
                       !.paths = [gone EXCEPT
                           ![newpath].stages[target_index + 1] = madd.result]]
          with_base == MoveStage(gone, newpath, oldinfo, 0, pair.one)
          with_other == MoveStage(with_base, newpath, oldinfo, other_source_index,
                                  pair.one)
          single ==
              IF newpath \notin DOMAIN paths \/ newinfo.clean
              THEN [st EXCEPT !.pc = "abort"]
              ELSE IF ~(target_index = 1 \/ target_index = 2)
              THEN [st EXCEPT !.pc = "abort"]
              ELSE IF ~(source_deleted \/ MaskAnd(oldinfo.filemask, old_sidemask) # 0)
              THEN [st EXCEPT !.pc = "abort"]
              ELSE IF collision /\ ~source_deleted THEN rename_add
              ELSE IF collision /\ source_deleted THEN [st EXCEPT !.paths = gone]
              ELSE IF source_deleted THEN [st EXCEPT !.paths = with_base]
              ELSE [st EXCEPT !.paths = with_other]
      IN  IF oldpath \notin DOMAIN paths \/ oldinfo.clean
          THEN ProcessFrom(opt, st, renames, i + 1, ll, junk)
          ELSE IF twice /\ newpath = otherpath
          THEN ProcessFrom(opt, one2one, renames, i + 1, ll, junk)
          ELSE IF twice
          THEN ProcessFrom(opt, one2two, renames, i + 2, ll, junk)
          ELSE ProcessFrom(opt, single, renames, i + 1, ll, junk)

\* process_renames returns clean_merge, which no branch of the loop clears
process_renames(opt, st, renames, ll, junk) == ProcessFrom(opt, st, renames, 1, ll, junk)

\* merge_detect_rename(opt) and need_dir_renames of detect_and_process_renames
need_dir_renames(opt, bases) ==
    opt.call_depth = 0 /\ bases # {} /\ opt.detect_directory_renames

\* detect_and_process_renames: st.clean is the returned clean flag, h the
\* seed of the hash maps
NoDirRenames == [d \in {} |-> [non_unique_new_dir |-> FALSE, new_dir |-> <<>>]]

\* QSORT(combined->queue, ...) and process_renames(opt, &combined)
ProcessCombined(opt, st, sorted, ll, junk) ==
    process_renames(opt, [st EXCEPT !.combined = sorted], sorted, ll, junk)

\* detect_and_process_renames from the two collect_renames calls on
CollectBoth(opt, st, side1_pairs, side2_pairs, side1_dir_renames, side2_dir_renames) ==
    collect_renames(opt,
        collect_renames(opt, [st EXCEPT !.clean = TRUE, !.combined = <<>>], 1,
                        side1_pairs, side2_dir_renames, side1_dir_renames),
        2, side2_pairs, side1_dir_renames, side2_dir_renames)

SortedRenames(opt, c2, ll, junk) == ProcessCombined(opt, c2, SortPairs(c2.combined), ll, junk)

\* detect_and_process_renames after the two get_diffpairs calls
DetectFrom(opt, st, bases, side1_pairs, side2_pairs, ll, junk, h) ==
    SortedRenames(opt,
        CollectBoth(opt, st, side1_pairs, side2_pairs,
            IF need_dir_renames(opt, bases)
            THEN get_directory_renames(side1_pairs, h) ELSE NoDirRenames,
            IF need_dir_renames(opt, bases)
            THEN get_directory_renames(side2_pairs, h) ELSE NoDirRenames),
        ll, junk)

detect_and_process_renames(opt, st, bases, merge_base, side1, side2, ll, junk, h) ==
    IF ~opt.detect_renames THEN [st EXCEPT !.clean = TRUE]
    ELSE DetectFrom(opt, st, bases, get_diffpairs(opt, merge_base, side1),
                    get_diffpairs(opt, merge_base, side2), ll, junk, h)

(***************************************************************************)
(* Unique paths                                                            *)
(***************************************************************************)
add_flattened_path_kept(s) == s

\* add_flattened_path: s with every '/' turned into '_'
add_flattened_path(s) == [i \in 1..Len(s) |-> IF s[i] = SLASH THEN UNDERSCORE ELSE s[i]]

\* "%d" of a suffix below 10
Decimal(n) == <<DIGIT0 + n>>

RECURSIVE UniqueFrom(_, _, _)
UniqueFrom(paths, base, suffix) ==
    LET newpath == base \o <<UNDERSCORE>> \o Decimal(suffix)
    IN  IF newpath \in DOMAIN paths THEN UniqueFrom(paths, base, suffix + 1)
        ELSE newpath

unique_path(paths, path, branch) ==
    LET newpath == path \o <<TILDE>> \o add_flattened_path(branch)
    IN  IF newpath \in DOMAIN paths THEN UniqueFrom(paths, newpath, 0) ELSE newpath

UniquePtr(s) == [org |-> "unique_path", s |-> s]

(***************************************************************************)
(* The tree writer                                                         *)
(***************************************************************************)
\* string_list_sort of the entries of versions from offset on
RECURSIVE SortVersions(_)
SortVersions(es) ==
    IF es = <<>> THEN <<>>
    ELSE LET rest == SortVersions(Tail(es))
             k == Cardinality({j \in 1..Len(rest) :
                                  StrCmp(rest[j].name, Head(es).name) < 0})
         IN  SubSeq(rest, 1, k) \o <<Head(es)>> \o SubSeq(rest, k + 1, Len(rest))

\* write_tree: the id of the tree object made of versions[offset..]
write_tree(versions, offset) ==
    LET relevant_entries == SortVersions(SubSeq(versions, offset + 1, Len(versions)))
    IN  <<4, [i \in 1..Len(relevant_entries) |->
                 <<relevant_entries[i].v.mode, relevant_entries[i].name,
                   relevant_entries[i].v.oid>>]>>

record_entry_for_tree_null(info, path, ci) ==
    LET basename == SubSeq(path, ci.basename_offset + 1, Len(path))
    IN  IF ~ci.clean /\ ci.filemask = 0 THEN info
        ELSE IF StrChrFrom(basename, SLASH, 1) # 0 THEN [info EXCEPT !.pc = "abort"]
        ELSE [info EXCEPT !.versions = Append(info.versions,
                                              [name |-> basename, v |-> ci.result])]

record_entry_for_tree_clean(info, path, ci) ==
    LET basename == SubSeq(path, ci.basename_offset + 1, Len(path))
    IN  IF ci.is_null \/ ~ci.clean THEN info
        ELSE [info EXCEPT !.versions = Append(info.versions,
                                              [name |-> basename, v |-> ci.result])]

\* record_entry_for_tree: info is the directory_versions, pc turns "abort"
\* when the basename holds a '/'
record_entry_for_tree(info, path, ci) ==
    LET basename == SubSeq(path, ci.basename_offset + 1, Len(path))
    IN  IF ci.is_null THEN info
        ELSE IF ~ci.clean /\ ci.filemask = 0 THEN info
        ELSE IF StrChrFrom(basename, SLASH, 1) # 0 THEN [info EXCEPT !.pc = "abort"]
        ELSE [info EXCEPT !.versions = Append(info.versions,
                                              [name |-> basename, v |-> ci.result])]

\* a const char * kept in offsets: the buffer it points into and how far in
Frame(ptr, off, util) == [ptr |-> ptr, off |-> off, util |-> util]

write_completed_directories_whole(st, new_directory_name) ==
    LET last == st.last_directory
        append_frame == [st EXCEPT
            !.last_directory = new_directory_name,
            !.offsets = Append(st.offsets,
                               Frame(new_directory_name, 0, Len(st.versions)))]
        offset == st.offsets[Len(st.offsets)].util
        empty == offset = Len(st.versions)
        tree == [mode |-> S_IFDIR, oid |-> write_tree(st.versions, offset)]
        paths1 == IF empty THEN [st.paths EXCEPT ![Str(last)].is_null = TRUE]
                  ELSE [st.paths EXCEPT ![Str(last)].result = tree]
        offsets1 == SubSeq(st.offsets, 1, Len(st.offsets) - 1)
        versions1 == st.versions
        same_as_prev == /\ offsets1 # <<>>
                        /\ offsets1[Len(offsets1)].ptr = new_directory_name
                        /\ offsets1[Len(offsets1)].off = 0
        offsets2 == IF same_as_prev THEN offsets1
                    ELSE Append(offsets1,
                                Frame(new_directory_name,
                                      StrRChr(Str(new_directory_name), SLASH),
                                      Len(versions1)))
        versions2 == IF empty THEN versions1
                     ELSE Append(versions1, [name |-> Basename(Str(last)), v |-> tree])
    IN  IF new_directory_name = last THEN st
        ELSE IF last = NullPtr
                \/ StrNEq(Str(new_directory_name), Str(last), Len(Str(last)))
        THEN append_frame
        ELSE IF Str(last) \notin DOMAIN st.paths THEN [st EXCEPT !.pc = "crash"]
        ELSE [st EXCEPT !.paths = paths1, !.offsets = offsets2,
                        !.versions = versions2,
                        !.last_directory = new_directory_name]

\* write_completed_directories; st carries paths and the directory_versions
\* fields versions, offsets and last_directory
write_completed_directories(st, new_directory_name) ==
    LET last == st.last_directory
        append_frame == [st EXCEPT
            !.last_directory = new_directory_name,
            !.offsets = Append(st.offsets,
                               Frame(new_directory_name, 0, Len(st.versions)))]
        offset == st.offsets[Len(st.offsets)].util
        empty == offset = Len(st.versions)
        tree == [mode |-> S_IFDIR, oid |-> write_tree(st.versions, offset)]
        paths1 == IF empty THEN [st.paths EXCEPT ![Str(last)].is_null = TRUE]
                  ELSE [st.paths EXCEPT ![Str(last)].result = tree]
        offsets1 == SubSeq(st.offsets, 1, Len(st.offsets) - 1)
        versions1 == SubSeq(st.versions, 1, offset)
        same_as_prev == /\ offsets1 # <<>>
                        /\ offsets1[Len(offsets1)].ptr = new_directory_name
                        /\ offsets1[Len(offsets1)].off = 0
        offsets2 == IF same_as_prev THEN offsets1
                    ELSE Append(offsets1,
                                Frame(new_directory_name,
                                      StrRChr(Str(new_directory_name), SLASH),
                                      Len(versions1)))
        versions2 == IF empty THEN versions1
                     ELSE Append(versions1, [name |-> Basename(Str(last)), v |-> tree])
    IN  IF new_directory_name = last THEN st
        ELSE IF last = NullPtr
                \/ StrNEq(Str(new_directory_name), Str(last), Len(Str(last)))
        THEN append_frame
        ELSE IF Str(last) \notin DOMAIN st.paths THEN [st EXCEPT !.pc = "crash"]
        ELSE [st EXCEPT !.paths = paths1, !.offsets = offsets2,
                        !.versions = versions2,
                        !.last_directory = new_directory_name]

(***************************************************************************)
(* process_entry and process_entries                                       *)
(***************************************************************************)
modify_delete_index_side(o, filemask) == IF filemask = 5 THEN 2 ELSE 1

\* index of the modify/delete branch: the stage whose version becomes the
\* result
modify_delete_index(o, filemask) ==
    LET side == IF filemask = 5 THEN 2 ELSE 1
    IN  IF o.call_depth # 0 THEN 0 ELSE side

Matched_base(ci) == [ci EXCEPT !.clean = TRUE, !.result = ci.stages[1]]

\* the match_mask branch of process_entry: two of the three versions are
\* the same, and the entry resolves cleanly to the odd one out
Matched(ci) ==
    IF ci.match_mask = 6
    THEN [ci EXCEPT !.clean = TRUE, !.result = ci.stages[2]]
    ELSE [ci EXCEPT !.clean = TRUE,
                    !.is_null = (ci.filemask = ci.match_mask),
                    !.result = ci.stages[(IF 7 - ci.match_mask = 4 THEN 2 ELSE 1) + 1]]

\* the end of process_entry: done is the resolved entry, ok whether the
\* asserts held, obuf1 the diagnostics
EntryDone(st, path, done, ok, obuf1) ==
    IF ~ok THEN [st EXCEPT !.pc = "abort"]
    ELSE record_entry_for_tree(
             [st EXCEPT !.paths = [st.paths EXCEPT ![path] = done],
                        !.obuf = obuf1,
                        !.unmerged = IF done.clean THEN st.unmerged
                                     ELSE st.unmerged \cup {path}],
             path, done)

\* the part of process_entry from the match_mask test on: ci is the entry
\* being resolved, path its key, df_file_index as set by the D/F branch, r
\* what handle_content_merge returns for it
ResolveWith(opt, st, path, ci, df_file_index, r) ==
    LET othermask == 7 - ci.match_mask
        matched == Matched(ci)
        matched_ok == \/ ci.match_mask = 6
                      \/ /\ othermask \in {2, 4}
                         /\ matched.is_null = (matched.result.mode = 0)
        \* unsigned clean_merge = handle_content_merge(...): -1 is non-zero
        clean_merge == r.clean # 0
        content0 == [ci EXCEPT !.clean = clean_merge /\ ~ci.df_conflict,
                               !.result = r.result]
        content == IF clean_merge /\ ci.df_conflict
                   THEN [content0 EXCEPT !.filemask = 2 ^ df_file_index,
                                         !.stages[df_file_index + 1] = r.result]
                   ELSE content0
        content_ok == ~r.bug /\ (clean_merge /\ ci.df_conflict => df_file_index \in {1, 2})
        side == IF ci.filemask = 4 THEN 2 ELSE 1
        index == modify_delete_index(opt, ci.filemask)
        done == IF ci.match_mask # 0 THEN matched
                ELSE IF ci.filemask >= 6 THEN content
                ELSE IF ci.filemask = 3 \/ ci.filemask = 5
                THEN [ci EXCEPT !.result = ci.stages[index + 1], !.clean = FALSE]
                ELSE IF ci.filemask = 2 \/ ci.filemask = 4
                THEN [ci EXCEPT !.result = ci.stages[side + 1],
                                !.clean = ~ci.df_conflict /\ ~ci.path_conflict]
                ELSE IF ci.filemask = 1
                THEN [ci EXCEPT !.is_null = TRUE, !.result = NullVersion,
                                !.clean = ~ci.path_conflict]
                ELSE ci
        ok == IF ci.match_mask # 0 THEN matched_ok
              ELSE IF ci.filemask >= 6 THEN content_ok ELSE TRUE
    IN  EntryDone(st, path, done, ok,
                  IF ci.match_mask = 0 /\ ci.filemask >= 6
                  THEN MergeErr(st.obuf, r) ELSE st.obuf)

ResolveEntry(opt, st, path, ci, df_file_index, ll, junk) ==
    ResolveWith(opt, st, path, ci, df_file_index,
                handle_content_merge(opt, ci.stages[1], ci.stages[2], ci.stages[3],
                                     ci.pathnames, opt.call_depth * 2, ll, junk))

\* the D/F branch of process_entry that moves the file to new_ci, keyed by
\* newpath = unique_path(...)
FileAside(st, path, ci, newpath, new_ci) ==
    [st EXCEPT !.paths = Put([st.paths EXCEPT ![path] = [ci EXCEPT !.filemask = 0]],
                             newpath, new_ci)]

\* process_entry from the D/F test on, for an entry that is resolved either
\* in place or, with a directory in the way, under newpath
EntryAs(opt, st, path, ci, df_file_index, newpath, ll, junk) ==
    LET plain == [st EXCEPT !.paths[path] = ci]
        freed == [ci EXCEPT !.df_conflict = FALSE, !.clean = FALSE, !.is_null = FALSE]
        new_ci == [ci EXCEPT !.key = UniquePtr(newpath)]
        aside == ci.df_conflict /\ ci.result.mode # 0
    IN  ResolveEntry(opt,
                     IF aside THEN FileAside(st, path, ci, newpath, new_ci) ELSE plain,
                     IF aside THEN newpath ELSE path,
                     IF aside THEN new_ci ELSE IF ci.df_conflict THEN freed ELSE ci,
                     IF aside THEN df_file_index ELSE 0, ll, junk)

\* process_entry with ci the entry after ci->processed = 1
EntryOf(opt, st, path, ci, df_file_index, ll, junk) ==
    IF ci.filemask = 0 THEN [st EXCEPT !.paths[path] = ci]
    ELSE IF ci.df_conflict /\ ci.result.mode # 0 /\ ci.result.mode # S_IFDIR
    THEN [st EXCEPT !.pc = "abort"]
    ELSE IF ci.df_conflict /\ ci.result.mode # 0 /\ ci.filemask = 1
    THEN [st EXCEPT !.paths[path] = [ci EXCEPT !.filemask = 0]]
    ELSE EntryAs(opt, st, path, ci, df_file_index,
                 unique_path(st.paths, path,
                             IF df_file_index = 1 THEN opt.branch1 ELSE opt.branch2),
                 ll, junk)

process_entry(opt, st, path, ll, junk) ==
    IF st.paths[path].clean \/ st.paths[path].processed
    THEN [st EXCEPT !.pc = "abort"]
    ELSE EntryOf(opt, st, path, [st.paths[path] EXCEPT !.processed = TRUE],
                 IF Bit(st.paths[path].dirmask, 1) THEN 2 ELSE 1, ll, junk)

\* one round of the loop of process_entries, st1 being the state that
\* write_completed_directories leaves
EntryIn(opt, st1, path, ll, junk) ==
    IF st1.pc # "ok" THEN st1
    ELSE IF st1.paths[path].clean
    THEN record_entry_for_tree(st1, path, st1.paths[path])
    ELSE process_entry(opt, st1, path, ll, junk)

\* the loop of process_entries, from plist[i] down to plist[1]
RECURSIVE EntriesFrom(_, _, _, _, _, _)
EntriesFrom(opt, st, plist, i, ll, junk) ==
    IF i < 1 \/ st.pc # "ok" THEN st
    ELSE EntriesFrom(opt,
                     EntryIn(opt,
                             write_completed_directories(st,
                                 st.paths[plist[i]].directory_name),
                             plist[i], ll, junk),
                     plist, i - 1, ll, junk)

\* the end of process_entries, r being the state its loop leaves
TreeWritten(r) ==
    IF r.pc # "ok" THEN r
    ELSE IF Len(r.offsets) # 1 \/ r.offsets[1].util # 0
    THEN [r EXCEPT !.pc = "abort"]
    ELSE [r EXCEPT !.result = write_tree(r.versions, 0)]

\* process_entries over the sorted keys plist
EntriesOf(opt, st, plist, ll, junk) ==
    TreeWritten(EntriesFrom(opt,
                    [st EXCEPT !.versions = <<>>, !.offsets = <<>>,
                               !.last_directory = NullPtr],
                    plist, Len(plist), ll, junk))

\* process_entries: st.result is *result_oid
process_entries(opt, st, ll, junk) ==
    IF DOMAIN st.paths = {} THEN [st EXCEPT !.result = TreeOid(EmptyTree)]
    ELSE EntriesOf(opt, st, SortStrings(DOMAIN st.paths), ll, junk)

(***************************************************************************)
(* strmap.c: a map from strings to pointers.  entries maps each key to its *)
(* util pointer, freed holds the blocks handed to free()                   *)
(***************************************************************************)
NoCall == [op |-> "none"]

strmap_init(strdup_strings) ==
    [strdup_strings |-> strdup_strings, entries |-> <<>>, freed |-> {}]

\* find_str_entry: the key of the entry, or NoStr for NULL
find_str_entry(map, str) == IF str \in DOMAIN map.entries THEN str ELSE NoStr

\* strmap_put: the map afterwards and the old util pointer (0 for NULL)
strmap_put(map, str, data) ==
    [map |-> [map EXCEPT !.entries =
                  [k \in (DOMAIN map.entries) \cup {str} |->
                      IF k = str THEN data ELSE map.entries[k]]],
     old |-> IF find_str_entry(map, str) # NoStr THEN map.entries[str] ELSE 0]

strmap_get(map, str) ==
    IF find_str_entry(map, str) # NoStr THEN map.entries[str] ELSE 0

strmap_contains(map, str) == find_str_entry(map, str) # NoStr

\* what the read of ret->item.string through a NULL ret can do: fault, or
\* deliver a null or a wild pointer that free() is then called on
NullReads == {"fault", "null", "wild"}

\* strmap_free followed by strmap_init: strmap_clear
strmap_clear(map, free_util) ==
    [strmap_init(map.strdup_strings) EXCEPT
        !.freed = map.freed
            \cup (IF map.strdup_strings
                  THEN {<<"string", k>> : k \in DOMAIN map.entries} ELSE {})
            \cup (IF free_util
                  THEN {<<"util", map.entries[k]>> :
                           k \in {j \in DOMAIN map.entries : map.entries[j] # 0}}
                  ELSE {})]

\* strmap_remove: ret is what hashmap_remove_entry returns, read the outcome
\* of reading through ret when ret is NULL; pc is "ok" when the call returns
\* with the heap intact, "crash" or "corrupt" otherwise
strmap_remove(map, str, free_util, read) ==
    LET ret == find_str_entry(map, str)
        removed == [k \in (DOMAIN map.entries) \ {str} |-> map.entries[k]]
        strings == IF map.strdup_strings /\ ret # NoStr
                   THEN {<<"string", ret>>} ELSE {}
        utils == IF ret # NoStr /\ free_util /\ map.entries[ret] # 0
                 THEN {<<"util", map.entries[ret]>>} ELSE {}
    IN  [map |-> [map EXCEPT !.entries = removed,
                             !.freed = map.freed \cup strings \cup utils],
         pc |-> IF map.strdup_strings /\ ret = NoStr
                THEN (IF read = "fault" THEN "crash"
                      ELSE IF read = "wild" THEN "corrupt" ELSE "ok")
                ELSE "ok"]

(***************************************************************************)
(* The state machine of merge_ort_nonrecursive_internal                    *)
(***************************************************************************)
VARIABLES
    head, merge, merge_base,      \* the three trees (path -> version)
    opt,                          \* struct merge_options
    ll, junk, seed,               \* the run's environment: what ll_merge and
                                  \* the object store do, what uninitialized
                                  \* memory holds, the seed of the hash maps
    pc,                           \* where the merge is
    paths,                        \* opt->priv->paths
    possible_dir_rename_bases,    \* opt->priv->possible_dir_rename_bases
    pairs,                        \* the combined rename queue
    unmerged,                     \* opt->priv->unmerged (its keys)
    obuf,                         \* the diagnostics written so far
    clean,                        \* the clean flag of the merge
    result,                       \* *result: the id of the result tree
    strmap,                       \* a struct strmap and the blocks freed
    strmap_call,                  \* the last call made on strmap
    strmap_pc,                    \* how that call ended
    stack,                        \* the calls of merge_ort_internal under way
    retval,                       \* what the call that just returned returned
    entry,                        \* the entry point called and what it did
    rebase                        \* cmd_fast_rebase: its locals, the refs, the index

inputs == <<head, merge, merge_base, opt, ll, junk, seed>>
strmap_vars == <<strmap, strmap_call, strmap_pc>>
driver_vars == <<stack, retval, entry, rebase>>
vars == <<head, merge, merge_base, opt, ll, junk, seed, pc, paths,
          possible_dir_rename_bases, pairs, unmerged, obuf, clean, result,
          strmap, strmap_call, strmap_pc, stack, retval, entry, rebase>>

\* no entry point was called: the merge is run on its own
NoRet == -2
NoEntry ==
    [name |-> "none", at |-> "none", ret |-> NoRet, priv |-> "live",
     switched |-> <<>>, args |-> <<>>]
\* no rebase is under way
NoRebase == [at |-> "none"]

NoPaths == [p \in {} |-> NullVersion]

\* the merge state the operators above work on
MergeState ==
    [ paths |-> paths, obuf |-> obuf, pc |-> "ok", clean |-> clean = 1,
      collisions |-> NoPaths, combined |-> pairs, unmerged |-> unmerged,
      versions |-> <<>>, offsets |-> <<>>, last_directory |-> NullPtr,
      result |-> result ]

\* the state in which merge_start leaves opt->priv
Fresh ==
    /\ pc = "start"
    /\ paths = NoPaths
    /\ possible_dir_rename_bases = {}
    /\ pairs = <<>>
    /\ unmerged = {}
    /\ obuf = <<>>
    /\ clean = 1
    /\ result = NullOid
    /\ strmap = strmap_init(FALSE)
    /\ strmap_call = NoCall
    /\ strmap_pc = "ok"
    /\ stack = <<>>
    /\ retval = NoRet
    /\ entry = NoEntry
    /\ rebase = NoRebase

already_up_to_date_unclean(o, buf, head_tree) ==
    [obuf |-> output(o, buf, 0, "Already up to date!"),
     result |-> TreeOid(head_tree), clean |-> 0]

\* the early return of merge_ort_nonrecursive_internal when merge_base and
\* merge are the same tree
already_up_to_date(o, buf, head_tree) ==
    [obuf |-> output(o, buf, 0, "Already up to date!"),
     result |-> TreeOid(head_tree), clean |-> 1]

\* merge_ort_nonrecursive_internal up to and including collect_merge_info
CollectMergeInfo ==
    /\ pc = "start"
    /\ IF oideq(TreeOid(merge_base), TreeOid(merge))
       THEN /\ obuf' = already_up_to_date(opt, obuf, head).obuf
            /\ result' = already_up_to_date(opt, obuf, head).result
            /\ clean' = already_up_to_date(opt, obuf, head).clean
            /\ pc' = "done"
            /\ UNCHANGED <<paths, possible_dir_rename_bases>>
       ELSE \E c \in {collect_merge_info(merge_base, head, merge)} :
                /\ paths' = c.paths @@ paths
                /\ possible_dir_rename_bases' = c.bases \cup possible_dir_rename_bases
                /\ pc' = "collected"
                /\ UNCHANGED <<obuf, result, clean>>
    /\ UNCHANGED <<inputs, pairs, unmerged, strmap_vars, driver_vars>>

\* clean = detect_and_process_renames(opt, &pairs, merge_base, head, merge)
DetectAndProcessRenames ==
    /\ pc = "collected"
    /\ \E r \in {detect_and_process_renames(opt, MergeState,
                     possible_dir_rename_bases, merge_base, head, merge,
                     ll, junk, seed)} :
           /\ paths' = r.paths
           /\ pairs' = r.combined
           /\ obuf' = r.obuf
           /\ clean' = IF r.clean THEN 1 ELSE 0
           /\ pc' = IF r.pc = "ok" THEN "renamed" ELSE r.pc
    /\ UNCHANGED <<inputs, possible_dir_rename_bases, unmerged, result, strmap_vars,
                   driver_vars>>

\* process_entries and the return of merge_ort_nonrecursive_internal
ProcessEntries ==
    /\ pc = "renamed"
    /\ \E r \in {process_entries(opt, MergeState, ll, junk)} :
           /\ paths' = r.paths
           /\ unmerged' = r.unmerged
           /\ obuf' = r.obuf
           /\ clean' = IF clean = 1 /\ r.unmerged = {} THEN 1 ELSE 0
           /\ result' = r.result
           /\ pc' = IF r.pc = "ok" THEN "done" ELSE r.pc
    /\ UNCHANGED <<inputs, possible_dir_rename_bases, pairs, strmap_vars, driver_vars>>

Next == CollectMergeInfo \/ DetectAndProcessRenames \/ ProcessEntries

\* merge_ort_nonrecursive_internal as a function of its inputs: what a run
\* from merge_start's state ends with
merge_ort_nonrecursive_internal(o, head_tree, merge_tree, base_tree, l, j, h) ==
    LET st0 == [ paths |-> NoPaths, obuf |-> <<>>, pc |-> "ok", clean |-> TRUE,
                 collisions |-> NoPaths, combined |-> <<>>, unmerged |-> {},
                 versions |-> <<>>, offsets |-> <<>>, last_directory |-> NullPtr,
                 result |-> NullOid ]
        c == collect_merge_info(base_tree, head_tree, merge_tree)
        r == detect_and_process_renames(o, [st0 EXCEPT !.paths = c.paths], c.bases,
                                        base_tree, head_tree, merge_tree, l, j, h)
        e == process_entries(o, r, l, j)
        out(pc0, cl, res, un) ==
            [pc |-> pc0, clean |-> cl, result |-> res, unmerged |-> un]
    IN  IF oideq(TreeOid(base_tree), TreeOid(merge_tree))
        THEN out("done", 1, TreeOid(head_tree), {})
        ELSE IF r.pc # "ok" THEN out(r.pc, IF r.clean THEN 1 ELSE 0, NullOid, {})
        ELSE IF e.pc # "ok" THEN out(e.pc, 0, NullOid, e.unmerged)
        ELSE out("done", IF r.clean /\ e.unmerged = {} THEN 1 ELSE 0, e.result,
                 e.unmerged)

(***************************************************************************)
(* Inputs                                                                  *)
(***************************************************************************)
MaxBlob == 2      \* blob contents 1..MaxBlob
MaxSeed == 1      \* hash seeds 0..MaxSeed

Reg(n) == [mode |-> S_IFREG, oid |-> Blob(n)]

\* a set of paths that can be the files of one tree: none is a directory of
\* another
Coexist(S) == \A p \in S, q \in S : ~Under(p, q)

\* every tree whose files are among U, with blob contents from B
AllTrees(U, B) ==
    UNION {[S -> {Reg(n) : n \in B}] : S \in {T \in SUBSET U : Coexist(T)}}

branchA == <<65>>                 \* "A"
branchB == <<98, 47, 66>>         \* "b/B"
ancestorO == <<79>>               \* "O"

DefaultOpt ==
    [ branch1 |-> branchA, branch2 |-> branchB, ancestor |-> ancestorO,
      call_depth |-> 0, verbosity |-> 2, recursive_variant |-> "normal",
      detect_renames |-> TRUE, detect_directory_renames |-> TRUE ]

Environments ==
    /\ ll \in {"clean", "conflict", "merge_error", "write_error"}
    /\ junk \in {NullOid, Blob(0)}
    /\ seed \in 0..MaxSeed

\* opt as merge_ort_internal sets it for a merge of merge bases at depth d
temp_branch1 == <<84, 101, 109, 112, 111, 114, 97, 114, 121, 32, 109, 101, 114, 103, 101, 32, 98, 114, 97, 110, 99, 104, 32, 49>>
temp_branch2 == <<84, 101, 109, 112, 111, 114, 97, 114, 121, 32, 109, 101, 114, 103, 101, 32, 98, 114, 97, 110, 99, 104, 32, 50>>

OptAt(d, variant, renames, verbosity) ==
    [DefaultOpt EXCEPT
        !.call_depth = d,
        !.branch1 = IF d > 0 THEN temp_branch1 ELSE branchA,
        !.branch2 = IF d > 0 THEN temp_branch2 ELSE branchB,
        !.recursive_variant = variant,
        !.detect_renames = renames,
        !.verbosity = verbosity]

MaxDepth == 1     \* call_depth 0..MaxDepth

p_f == <<102>>              \* "f"
p_g == <<103>>              \* "g"
p_h == <<104>>              \* "h"
p_da == <<100, 47, 97>>    \* "d/a"
p_dda == <<100, 45, 47, 97>> \* "d-/a"
p_p == <<112>>              \* "p"
p_px == <<112, 47, 120>>    \* "p/x"
p_pA == <<112, 126, 65>>   \* "p~A"

\* fast-forward and identity: merge_base is head or merge
InitFF ==
    /\ Fresh
    /\ opt = DefaultOpt
    /\ ll = "clean" /\ junk = NullOid /\ seed = 0
    /\ \E base \in AllTrees({p_f, p_da, p_dda}, 1..MaxBlob),
          other \in AllTrees({p_f, p_da, p_dda}, 1..MaxBlob) :
          /\ merge_base = base
          /\ \/ head = base /\ merge = other
             \/ head = other /\ merge = base

SpecFF == InitFF /\ [][Next]_vars

\* any three trees over a file and a directory, at any depth
InitGen ==
    /\ Fresh
    /\ \E d \in 0..MaxDepth, renames \in BOOLEAN : opt = OptAt(d, "normal", renames, 2)
    /\ ll = "clean" /\ junk = NullOid /\ seed = 0
    /\ head \in AllTrees({p_f, p_da}, 1..MaxBlob)
    /\ merge \in AllTrees({p_f, p_da}, 1..MaxBlob)
    /\ merge_base \in AllTrees({p_f, p_da}, 1..MaxBlob)

SpecGen == InitGen /\ [][Next]_vars

\* any three trees over two files, in every environment and variant
InitMerge ==
    /\ Fresh
    /\ \E variant \in {"normal", "ours", "theirs"} : opt = OptAt(0, variant, TRUE, 2)
    /\ Environments
    /\ seed = 0
    /\ head \in AllTrees({p_f, p_g}, 1..MaxBlob)
    /\ merge \in AllTrees({p_f, p_g}, 1..MaxBlob)
    /\ merge_base \in AllTrees({p_f, p_g}, 1..MaxBlob)

SpecMerge == InitMerge /\ [][Next]_vars

\* a base with at most the file f, sides over f, g and h
InitRename ==
    /\ Fresh
    /\ opt = DefaultOpt
    /\ ll \in {"clean", "conflict"} /\ junk = NullOid /\ seed = 0
    /\ head \in AllTrees({p_f, p_g, p_h}, 1..MaxBlob)
    /\ merge \in AllTrees({p_f, p_g, p_h}, 1..MaxBlob)
    /\ merge_base \in AllTrees({p_f}, 1..MaxBlob)

SpecRename == InitRename /\ [][Next]_vars

\* p as a file or as a directory, and the name a moved file would take
InitDF ==
    /\ Fresh
    /\ \E renames \in BOOLEAN : opt = OptAt(0, "normal", renames, 2)
    /\ ll = "clean" /\ junk = NullOid /\ seed = 0
    /\ head \in AllTrees({p_p, p_px, p_pA}, 1..MaxBlob)
    /\ merge \in AllTrees({p_p, p_px, p_pA}, 1..MaxBlob)
    /\ merge_base \in AllTrees({p_p, p_px, p_pA}, 1..MaxBlob)

SpecDF == InitDF /\ [][Next]_vars

n_a == <<97>>     \* "a"
n_b == <<98>>     \* "b"
n_c == <<99>>     \* "c"
n_x == <<120>>    \* "x"
dir_d == <<100>>  \* "d"
dir_e == <<101>>  \* "e"
dir_k == <<107>>  \* "k"

\* the path of the file name in the directory dir, "" being the root
In(dir, name) == IF dir = <<>> THEN name ELSE dir \o <<SLASH>> \o name

\* the tree in which each file name of place lies in the directory
\* place[name], and is absent when place[name] is NoStr
Placed(place, n) ==
    [p \in {In(place[f], f) : f \in {g \in DOMAIN place : place[g] # NoStr}} |-> Reg(n)]

With(t, p, v) == [q \in (DOMAIN t) \cup {p} |-> IF q = p THEN v ELSE t[q]]

\* a base d/{a,b,c}; one side moves each file to d, e, k or the root, or
\* deletes it, and may add e/x; the other side may add d/x
InitDR ==
    /\ Fresh
    /\ \E verbosity \in {0, 2} : opt = OptAt(0, "normal", TRUE, verbosity)
    /\ ll = "clean" /\ junk = NullOid /\ seed \in 0..MaxSeed
    /\ merge_base = Placed([f \in {n_a, n_b, n_c} |-> dir_d], 1)
    /\ \E place \in [{n_a, n_b, n_c} -> {dir_d, dir_e, dir_k, <<>>, NoStr}],
          added \in BOOLEAN, taken \in BOOLEAN, swap \in BOOLEAN :
          LET renamer == IF taken THEN With(Placed(place, 1), In(dir_e, n_x), Reg(1))
                         ELSE Placed(place, 1)
              other == IF added THEN With(merge_base, In(dir_d, n_x), Reg(2))
                       ELSE merge_base
          IN  /\ head = IF swap THEN other ELSE renamer
              /\ merge = IF swap THEN renamer ELSE other

SpecDR == InitDR /\ [][Next]_vars

p_py == <<112, 47, 121>>    \* "p/y"

\* one-sided changes: a directory p that one side lacks or has as a file,
\* so that the files of p are walked inside a possibly renamed directory
InitOne ==
    /\ Fresh
    /\ opt = DefaultOpt
    /\ ll = "clean" /\ junk = NullOid /\ seed = 0
    /\ merge_base \in AllTrees({p_px, p_py, p_pA}, 1..MaxBlob)
    /\ \E one \in AllTrees({p_p, p_pA}, 1..MaxBlob),
          other \in AllTrees({p_px, p_py, p_pA}, 1..MaxBlob) :
          \/ head = one /\ merge = other
          \/ head = other /\ merge = one

SpecOne == InitOne /\ [][Next]_vars

MaxUtil == 2      \* util pointers 1..MaxUtil, 0 being NULL
MapKeys == {p_f, p_g}

merge_vars == <<inputs, pc, paths, possible_dir_rename_bases, pairs, unmerged,
                obuf, clean, result, driver_vars>>

\* a strmap fresh from strmap_init, with no merge under way
InitMap ==
    /\ head = EmptyTree /\ merge = EmptyTree /\ merge_base = EmptyTree
    /\ opt = DefaultOpt
    /\ ll = "clean" /\ junk = NullOid /\ seed = 0
    /\ pc = "idle"
    /\ paths = NoPaths
    /\ possible_dir_rename_bases = {}
    /\ pairs = <<>>
    /\ unmerged = {}
    /\ obuf = <<>>
    /\ clean = 1
    /\ result = NullOid
    /\ \E strdup_strings \in BOOLEAN : strmap = strmap_init(strdup_strings)
    /\ strmap_call = NoCall
    /\ strmap_pc = "ok"
    /\ stack = <<>>
    /\ retval = NoRet
    /\ entry = NoEntry
    /\ rebase = NoRebase

StrmapPut ==
    /\ pc = "idle" /\ strmap_pc = "ok"
    /\ \E str \in MapKeys, data \in 0..MaxUtil :
           /\ strmap' = strmap_put(strmap, str, data).map
           /\ strmap_call' = [op |-> "put", str |-> str, data |-> data,
                              ret |-> strmap_put(strmap, str, data).old]
    /\ UNCHANGED <<merge_vars, strmap_pc>>

StrmapRemove ==
    /\ pc = "idle" /\ strmap_pc = "ok"
    /\ \E str \in MapKeys, free_util \in BOOLEAN, read \in NullReads :
           /\ strmap' = strmap_remove(strmap, str, free_util, read).map
           /\ strmap_pc' = strmap_remove(strmap, str, free_util, read).pc
           /\ strmap_call' = [op |-> "remove", str |-> str, free_util |-> free_util]
    /\ UNCHANGED merge_vars

StrmapClear ==
    /\ pc = "idle" /\ strmap_pc = "ok"
    /\ \E free_util \in BOOLEAN :
           /\ strmap' = strmap_clear(strmap, free_util)
           /\ strmap_call' = [op |-> "clear", free_util |-> free_util]
    /\ UNCHANGED <<merge_vars, strmap_pc>>

NextMap == StrmapPut \/ StrmapRemove \/ StrmapClear

SpecMap == InitMap /\ [][NextMap]_vars

\* a base with the directories d and k: one side moves or deletes each file,
\* the other may add d/x
InitTwo ==
    /\ Fresh
    /\ opt = OptAt(0, "normal", TRUE, 2)
    /\ ll = "clean" /\ junk = NullOid /\ seed \in 0..MaxSeed
    /\ merge_base = Placed((n_a :> dir_d) @@ (n_b :> dir_d) @@ (n_c :> dir_k), 1)
    /\ \E place \in [{n_a, n_b, n_c} -> {dir_d, dir_e, dir_k, NoStr}],
          added \in BOOLEAN, grown \in BOOLEAN, swap \in BOOLEAN :
          LET renamer == Placed(place, 1)
              plus == IF added THEN With(merge_base, In(dir_d, n_x), Reg(2))
                      ELSE merge_base
              other == IF grown THEN With(plus, In(dir_k, n_x), Reg(2))
                       ELSE plus
          IN  /\ head = IF swap THEN other ELSE renamer
              /\ merge = IF swap THEN renamer ELSE other

SpecTwo == InitTwo /\ [][Next]_vars

(***************************************************************************)
(* The entry points and the recursion driver                               *)
(***************************************************************************)
\* parse_tree: the files of the tree object oid
RECURSIVE parse_tree(_)
parse_tree(oid) ==
    LET es == oid[2]
        below(i) == IF es[i][1] = S_IFDIR THEN parse_tree(es[i][3])
                    ELSE (<<>> :> [mode |-> es[i][1], oid |-> es[i][3]])
        at(i) == {IF q = <<>> THEN es[i][2] ELSE es[i][2] \o <<SLASH>> \o q :
                     q \in DOMAIN below(i)}
        owner(p) == CHOOSE i \in 1..Len(es) : p \in at(i)
        rest(p) == IF p = es[owner(p)][2] THEN <<>>
                   ELSE SubSeq(p, Len(es[owner(p)][2]) + 2, Len(p))
    IN  [p \in UNION {at(i) : i \in 1..Len(es)} |-> below(owner(p))[rest(p)]]

empty_tree_name == <<101, 109, 112, 116, 121, 32, 116, 114, 101, 101>>
merged_common_ancestors == <<109, 101, 114, 103, 101, 100, 32, 99, 111, 109, 109, 111, 110, 32, 97, 110, 99, 101, 115, 116, 111, 114, 115>>
\* strbuf_add_unique_abbrev of the one merge base: commits carry no id of
\* their own here, so the abbreviation is that of the commit's tree
merge_base_abbrev(tree) == <<35>> \o <<48 + Cardinality(DOMAIN tree)>>

\* a call of merge_ort_internal(opt, h1, h2, merge_bases, result_tree)
CallFrame(h1, h2, merge_bases) ==
    [ h1 |-> h1, h2 |-> h2, merge_bases |-> merge_bases,
      merged_merge_bases |-> EmptyTree, ancestor_name |-> NoStr,
      saved_b1 |-> NoStr, saved_b2 |-> NoStr, at |-> "enter" ]

Top == stack[Len(stack)]
Caller == SubSeq(stack, 1, Len(stack) - 1)

reset_maps_skipped(reinitialize) ==
    [paths |-> paths, possible_dir_rename_bases |-> possible_dir_rename_bases,
     unmerged |-> unmerged]

\* reset_maps(opt, reinitialize): the three maps are cleared or freed
reset_maps(reinitialize) ==
    [paths |-> NoPaths, possible_dir_rename_bases |-> {}, unmerged |-> {}]

MaxBases == 3     \* merge bases handed to merge_ort 0..MaxBases
DrvTrees == AllTrees({p_f}, 1..MaxBlob)
\* the trees of the merge bases handed in: no file, or f as one of two
\* early versions
BaseTrees == {EmptyTree, p_f :> Reg(1), p_f :> Reg(2)}
BaseLists(T, n) == UNION {[1..k -> T] : k \in 0..n}

\* get_merge_bases(h1, h2), reversed: what the commit graph gives for the
\* two commits of a recursive call
get_merge_bases(depth) ==
    BaseLists({EmptyTree, p_f :> Reg(1)}, IF depth < MaxDepth THEN 2 ELSE 1)

\* merge_start, and the call the entry point makes next
MergeStart ==
    /\ pc = "entry"
    /\ IF entry.args.index_dirty
       THEN /\ entry' = [entry EXCEPT !.at = "returned", !.ret = -1]
            /\ obuf' = err(obuf, "Your local changes would be overwritten by merge")
            /\ pc' = "exit"
            /\ UNCHANGED <<stack, head, merge, merge_base>>
       ELSE /\ entry' = [entry EXCEPT !.at = "called", !.priv = "live"]
            /\ obuf' = obuf
            /\ IF entry.name = "merge_ort"
               THEN /\ stack' = <<CallFrame(entry.args.h1, entry.args.h2,
                                        entry.args.merge_bases)>>
                    /\ pc' = "internal"
                    /\ UNCHANGED <<head, merge, merge_base>>
               ELSE /\ head' = entry.args.h1
                    /\ merge' = entry.args.h2
                    /\ merge_base' = entry.args.merge_bases[1]
                    /\ pc' = "start"
                    /\ stack' = stack
    /\ paths' = NoPaths /\ unmerged' = {} /\ possible_dir_rename_bases' = {}
    /\ UNCHANGED <<opt, ll, junk, seed, pairs, clean, result, retval, strmap_vars, rebase>>

\* merge_ort_internal from its entry to the loop over the other merge bases
InternalEnter ==
    /\ pc = "internal" /\ stack # <<>> /\ Top.at = "enter" /\ retval = NoRet
    /\ \E found \in (IF Top.merge_bases = <<>> THEN get_merge_bases(opt.call_depth)
                     ELSE {Top.merge_bases}) :
           LET merged_merge_bases == IF found = <<>> THEN EmptyTree ELSE Head(found)
               iter == IF found = <<>> THEN <<>> ELSE Tail(found)
               ancestor_name ==
                   IF found = <<>> THEN empty_tree_name
                   ELSE IF opt.ancestor # NoStr /\ opt.call_depth = 0 THEN opt.ancestor
                   ELSE IF iter # <<>> THEN merged_common_ancestors
                   ELSE merge_base_abbrev(merged_merge_bases)
           IN  stack' = Append(Caller,
                   [Top EXCEPT !.merge_bases = iter,
                               !.merged_merge_bases = merged_merge_bases,
                               !.ancestor_name = ancestor_name,
                               !.at = "loop"])
    /\ UNCHANGED <<inputs, pc, paths, possible_dir_rename_bases, pairs, unmerged,
                   obuf, clean, result, retval, entry, strmap_vars, rebase>>

\* the head of the loop: the recursive call for the next merge base, or,
\* after the last, the call of merge_ort_nonrecursive_internal
InternalLoop ==
    /\ pc = "internal" /\ stack # <<>> /\ Top.at = "loop" /\ retval = NoRet
    /\ IF Top.merge_bases # <<>>
       THEN /\ opt' = [opt EXCEPT !.call_depth = opt.call_depth + 1,
                                  !.branch1 = temp_branch1,
                                  !.branch2 = temp_branch2]
            /\ stack' = Append(Append(Caller,
                            [Top EXCEPT !.saved_b1 = opt.branch1,
                                        !.saved_b2 = opt.branch2,
                                        !.at = "called"]),
                            CallFrame(Top.merged_merge_bases, Head(Top.merge_bases), <<>>))
            /\ UNCHANGED <<head, merge, merge_base, pc, pairs, clean>>
       ELSE /\ opt' = [opt EXCEPT !.ancestor = Top.ancestor_name]
            /\ head' = Top.h1
            /\ merge' = Top.h2
            /\ merge_base' = Top.merged_merge_bases
            /\ pairs' = <<>>
            /\ clean' = 1
            /\ pc' = "start"
            /\ stack' = Append(Caller, [Top EXCEPT !.at = "merging"])
    /\ UNCHANGED <<ll, junk, seed, paths, possible_dir_rename_bases, unmerged, obuf,
                   result, retval, entry, strmap_vars, rebase>>

\* collect_merge_info fails: a tree of the walk cannot be read
CollectMergeInfoFails ==
    /\ pc = "start" /\ entry.name # "none"
    /\ ~oideq(TreeOid(merge_base), TreeOid(merge))
    /\ obuf' = IF show(opt, 4) \/ opt.call_depth > 0
               THEN err(obuf, "collecting merge info for trees failed") ELSE obuf
    /\ clean' = -1
    /\ pc' = "failed"
    /\ UNCHANGED <<inputs, paths, possible_dir_rename_bases, pairs, unmerged, result,
                   driver_vars, strmap_vars>>

\* the end of merge_ort_internal, after merge_ort_nonrecursive_internal
InternalReturn ==
    /\ pc \in {"done", "failed"} /\ stack # <<>> /\ Top.at = "merging"
    /\ opt' = [opt EXCEPT !.ancestor = NoStr]
    /\ retval' = clean
    /\ stack' = Caller
    /\ pc' = "internal"
    /\ UNCHANGED <<head, merge, merge_base, ll, junk, seed, paths,
                   possible_dir_rename_bases, pairs, unmerged, obuf, clean, result,
                   entry, strmap_vars, rebase>>

after_recursive_call(o, frame) ==
    [o EXCEPT !.branch1 = frame.saved_b1, !.branch2 = frame.saved_b2,
              !.call_depth = o.call_depth - 1]

\* the loop body after the recursive call returned
AfterRecursiveCall ==
    /\ pc = "internal" /\ stack # <<>> /\ Top.at = "called" /\ retval # NoRet
    /\ IF retval < 0
       THEN /\ stack' = Caller
            /\ UNCHANGED <<opt, retval, paths, possible_dir_rename_bases, unmerged>>
       ELSE /\ opt' = after_recursive_call(opt, Top)
            /\ stack' = Append(Caller,
                   [Top EXCEPT !.merged_merge_bases = parse_tree(result),
                               !.merge_bases = Tail(Top.merge_bases),
                               !.at = "loop"])
            /\ paths' = reset_maps(1).paths
            /\ possible_dir_rename_bases' = reset_maps(1).possible_dir_rename_bases
            /\ unmerged' = reset_maps(1).unmerged
            /\ retval' = NoRet
    /\ UNCHANGED <<head, merge, merge_base, ll, junk, seed, pc, pairs, obuf, clean,
                   result, entry, strmap_vars, rebase>>

\* switch_to_merge_result(opt, head, result): checkout, then
\* record_unmerged_index_entries
switch_to_merge_result(e, next) ==
    Append(e.switched, [prev |-> TreeOid(e.args.h1), next |-> next,
                        unmerged |-> unmerged])

\* the entry point after its merge returned: switch_to_merge_result,
\* merge_finalize, return clean
EntryReturns ==
    /\ entry.at = "called"
    /\ \/ entry.name = "merge_ort" /\ pc = "internal" /\ stack = <<>> /\ retval # NoRet
       \/ entry.name = "merge_ort_nonrecursive" /\ pc \in {"done", "failed"}
    /\ entry' = [entry EXCEPT
                    !.switched = switch_to_merge_result(entry, result),
                    !.ret = IF entry.name = "merge_ort" THEN retval ELSE clean,
                    !.priv = "NULL",
                    !.at = "returned"]
    /\ paths' = reset_maps(0).paths
    /\ possible_dir_rename_bases' = reset_maps(0).possible_dir_rename_bases
    /\ unmerged' = reset_maps(0).unmerged
    /\ pc' = "exit"
    /\ UNCHANGED <<inputs, pairs, obuf, clean, result, stack, retval, strmap_vars, rebase>>

NextRec ==
    \/ MergeStart
    \/ InternalEnter
    \/ InternalLoop
    \/ CollectMergeInfo
    \/ CollectMergeInfoFails
    \/ DetectAndProcessRenames
    \/ ProcessEntries
    \/ InternalReturn
    \/ AfterRecursiveCall
    \/ EntryReturns

\* a call of merge_ort or of merge_ort_nonrecursive on a repository whose
\* commits have one file at most
InitRec ==
    /\ pc = "entry"
    /\ ll = "conflict" /\ seed = 0
    /\ paths = NoPaths /\ possible_dir_rename_bases = {} /\ unmerged = {}
    /\ pairs = <<>> /\ obuf = <<>> /\ clean = 1
    /\ strmap = strmap_init(FALSE) /\ strmap_call = NoCall /\ strmap_pc = "ok"
    /\ stack = <<>> /\ retval = NoRet /\ rebase = NoRebase
    /\ head = EmptyTree /\ merge = EmptyTree /\ merge_base = EmptyTree
    /\ \E h1 \in DrvTrees, h2 \in DrvTrees, index_dirty \in BOOLEAN :
        \/ /\ \E merge_bases \in BaseLists(BaseTrees, MaxBases) :
                  entry = [name |-> "merge_ort", at |-> "none", ret |-> NoRet,
                           priv |-> "NULL", switched |-> <<>>,
                           args |-> [h1 |-> h1, h2 |-> h2,
                                     merge_bases |-> merge_bases,
                                     index_dirty |-> index_dirty]]
           /\ opt = [DefaultOpt EXCEPT !.ancestor = NoStr]
           /\ junk = NullOid
           /\ result = NullOid
        \/ /\ \E base \in BaseTrees :
                  entry = [name |-> "merge_ort_nonrecursive", at |-> "none",
                           ret |-> NoRet, priv |-> "NULL", switched |-> <<>>,
                           args |-> [h1 |-> h1, h2 |-> h2, merge_bases |-> <<base>>,
                                     index_dirty |-> index_dirty]]
           /\ opt = DefaultOpt
           /\ junk \in {NullOid, Blob(0)}
           /\ result = junk

SpecRec == InitRec /\ [][NextRec]_vars

\* one path that each side has as a regular file, a symbolic link or a
\* submodule
Typed == {[mode |-> m, oid |-> Blob(n)] : m \in {S_IFREG, S_IFLNK, S_IFGITLINK},
                                          n \in 1..MaxBlob}

InitMixed ==
    /\ Fresh
    /\ \E variant \in {"normal", "ours", "theirs"} : opt = OptAt(0, variant, TRUE, 2)
    /\ ll \in {"clean", "conflict"} /\ junk = NullOid /\ seed = 0
    /\ \E a \in Typed, b \in Typed :
           /\ head = (p_f :> a)
           /\ merge = (p_f :> b)
    /\ \/ merge_base = EmptyTree
       \/ \E o \in Typed : merge_base = (p_f :> o)

SpecMixed == InitMixed /\ [][Next]_vars

(***************************************************************************)
(* The fast-rebase driver                                                  *)
(***************************************************************************)
\* merge_ort_inmemory_nonrecursive(opt, head, merge, merge_base, &result):
\* the non-recursive merge of the three trees from a fresh engine state; its
\* status (1 clean, 0 unclean, -1 fatal) goes to result.clean and its tree to
\* result.automerge_tree, which a fatal error leaves as it was; m is what
\* the merge of the three trees ends with when the walk can read them
merge_ort_inmemory_nonrecursive(m, merge_tree, base_tree, res, walk_fails) ==
    IF walk_fails /\ ~oideq(TreeOid(base_tree), TreeOid(merge_tree))
    THEN [clean |-> -1, automerge_tree |-> res.automerge_tree, pc |-> "done"]
    ELSE IF m.pc # "done"
    THEN [clean |-> m.clean, automerge_tree |-> res.automerge_tree, pc |-> m.pc]
    ELSE [clean |-> m.clean, automerge_tree |-> parse_tree(m.result), pc |-> "done"]

\* the condition on which the loop of cmd_fast_rebase dies
hit_a_conflict(res) == res.clean = 0

\* what one turn of the loop leaves in the locals of cmd_fast_rebase
picked(rb, res) ==
    LET pick == [head |-> rb.result.automerge_tree, merge |-> Head(rb.revs).tree,
                 base |-> Head(rb.revs).parent, clean |-> res.clean,
                 tree |-> res.automerge_tree]
        result_now == [clean |-> res.clean, automerge_tree |-> res.automerge_tree]
    IN  IF res.pc # "done"
        THEN [rb EXCEPT !.at = res.pc, !.picks = Append(@, pick)]
        ELSE IF hit_a_conflict(res)
        THEN [rb EXCEPT !.at = "died", !.picks = Append(@, pick), !.result = result_now]
        ELSE [rb EXCEPT !.revs = Tail(@), !.picks = Append(@, pick),
                        !.result = result_now,
                        !.last_picked_commit = Len(rb.picks) + 1,
                        !.last_commit = res.automerge_tree]

\* one turn of the loop of cmd_fast_rebase: the next commit of the walk is
\* merged and a commit is made of the result
RebasePick ==
    /\ rebase.at = "loop" /\ rebase.revs # <<>>
    /\ \E walk_fails \in BOOLEAN :
         \E m \in {merge_ort_nonrecursive_internal(opt, rebase.result.automerge_tree,
                        Head(rebase.revs).tree, Head(rebase.revs).parent,
                        ll, junk, seed)} :
           \E res \in {merge_ort_inmemory_nonrecursive(m, Head(rebase.revs).tree,
                            Head(rebase.revs).parent, rebase.result, walk_fails)} :
               rebase' = picked(rebase, res)
    /\ UNCHANGED <<inputs, pc, paths, possible_dir_rename_bases, pairs, unmerged, obuf,
                   clean, result, strmap_vars, stack, retval, entry>>

\* cmd_fast_rebase after the loop: the working tree is switched to the
\* result, the branch and HEAD are updated and the index is written.  With
\* no commit picked last_picked_commit is NULL and reading its id is
\* undefined: the run faults or goes on.
RebaseFinish ==
    /\ rebase.at = "loop" /\ rebase.revs = <<>>
    /\ \E switch_ok \in BOOLEAN, null_read \in {"fault", "garbage"} :
         rebase' =
           IF ~switch_ok
           THEN [rebase EXCEPT !.at = "exit128", !.switched = TRUE]
           ELSE IF rebase.last_picked_commit = 0 /\ null_read = "fault"
           THEN [rebase EXCEPT !.at = "crash", !.switched = TRUE]
           ELSE [rebase EXCEPT !.at = "returned", !.switched = TRUE,
                               !.branch = [updated |-> TRUE,
                                           new |-> rebase.last_commit,
                                           old |-> rebase.last_picked_commit],
                               !.HEAD = "branch",
                               !.index_written = TRUE]
    /\ UNCHANGED <<inputs, pc, paths, possible_dir_rename_bases, pairs, unmerged, obuf,
                   clean, result, strmap_vars, stack, retval, entry>>

NextRebase == RebasePick \/ RebaseFinish

MaxPicks == 2     \* commits of the walk 0..MaxPicks

\* the commits from upstream to the branch, oldest first, each with the tree
\* of its one parent
Walk(upstream, trees) ==
    [k \in 1..Len(trees) |->
        [tree |-> trees[k], parent |-> IF k = 1 THEN upstream ELSE trees[k - 1]]]

\* fast-rebase --onto onto upstream branch, HEAD being onto
InitRebase ==
    /\ pc = "rebase"
    /\ opt = [DefaultOpt EXCEPT !.branch1 = <<72, 69, 65, 68>>]
    /\ ll \in {"clean", "conflict"} /\ junk = NullOid /\ seed = 0
    /\ head = EmptyTree /\ merge = EmptyTree /\ merge_base = EmptyTree
    /\ paths = NoPaths /\ possible_dir_rename_bases = {} /\ unmerged = {}
    /\ pairs = <<>> /\ obuf = <<>> /\ clean = 1 /\ result = NullOid
    /\ strmap = strmap_init(FALSE) /\ strmap_call = NoCall /\ strmap_pc = "ok"
    /\ stack = <<>> /\ retval = NoRet /\ entry = NoEntry
    /\ \E onto \in DrvTrees, upstream \in DrvTrees,
          trees \in UNION {[1..n -> DrvTrees] : n \in 0..MaxPicks} :
          rebase = [at |-> "loop", onto |-> onto, walk |-> Walk(upstream, trees),
                    revs |-> Walk(upstream, trees),
                    result |-> [clean |-> 0, automerge_tree |-> onto],
                    picks |-> <<>>, last_commit |-> onto, last_picked_commit |-> 0,
                    switched |-> FALSE,
                    branch |-> [updated |-> FALSE, new |-> EmptyTree, old |-> 0],
                    HEAD |-> "onto",
                    index_written |-> FALSE]

SpecRebase == InitRebase /\ [][NextRebase]_vars

Spec == SpecFF

(***************************************************************************)
(* Properties                                                              *)
(***************************************************************************)
Running == pc \in {"start", "collected", "renamed"}

\* the files of the tree with id oid, as <<path, version>> pairs
RECURSIVE TreeFiles(_)
TreeFiles(oid) ==
    UNION {IF e[1] = S_IFDIR /\ e[3][1] = 4
           THEN {<<e[2] \o <<SLASH>> \o f[1], f[2]>> : f \in TreeFiles(e[3])}
           ELSE {<<e[2], [mode |-> e[1], oid |-> e[3]]>>}
           : e \in {oid[2][i] : i \in 1..Len(oid[2])}}

ResultPaths == {f[1] : f \in TreeFiles(result)}

\* C1: fast-forward.  A merge whose base is head ends clean with the tree of
\* merge as its result, and a merge whose base is merge ends clean with the
\* tree of head.
C1_FastForward ==
    /\ merge_base = head =>
           Running \/ (pc = "done" /\ clean = 1 /\ result = TreeOid(merge))
    /\ merge_base = merge =>
           Running \/ (pc = "done" /\ clean = 1 /\ result = TreeOid(head))

\* C2: identity.  A merge of a tree with itself against itself ends clean
\* and returns that tree.
C2_Identity ==
    (head = merge_base /\ merge = merge_base) =>
        pc = "start" \/ (pc = "done" /\ clean = 1 /\ result = TreeOid(head))

C2_Witness ==
    /\ pc = "done"
    /\ head = merge_base /\ merge = merge_base
    /\ p_da \in DOMAIN head

\* C7: modify/delete.  An entry resolved with a file in base and in exactly
\* one side, and no matching pair, is unclean, is a key of unmerged, and its
\* result is the surviving side's version at depth 0 and the base version
\* in a merge of merge bases.
C7_ModifyDelete ==
    \A p \in DOMAIN paths :
        (/\ paths[p].ci /\ paths[p].processed
         /\ paths[p].filemask \in {3, 5} /\ paths[p].match_mask = 0
         /\ pc = "done")
        => /\ ~paths[p].clean
           /\ p \in unmerged
           /\ paths[p].result =
                  (IF opt.call_depth > 0 THEN paths[p].stages[1]
                   ELSE IF paths[p].filemask = 3 THEN paths[p].stages[2]
                   ELSE paths[p].stages[3])

C7_Witness ==
    /\ pc = "done"
    /\ opt.call_depth > 0
    /\ \E p \in DOMAIN paths :
           /\ paths[p].ci /\ paths[p].processed
           /\ paths[p].filemask = 5 /\ paths[p].match_mask = 0
           /\ paths[p].result = paths[p].stages[1]
           /\ paths[p].stages[1] # paths[p].stages[3]

InputPaths == DOMAIN head \cup DOMAIN merge \cup DOMAIN merge_base

Dropped(p) ==
    /\ p \in DOMAIN merge_base
    /\ \/ p \notin DOMAIN head /\ (p \in DOMAIN merge => merge[p] = merge_base[p])
       \/ p \notin DOMAIN merge /\ (p \in DOMAIN head => head[p] = merge_base[p])
       \/ \E i \in 1..Len(pairs) : pairs[i].status = "R" /\ Str(pairs[i].one) = p

\* the file at p gave its name to a directory and is in the result and in
\* unmerged under a name p~...
MovedAside(p) ==
    \E q \in unmerged :
        /\ paths[q].key.org = "unique_path"
        /\ Len(q) > Len(p) + 1
        /\ SubSeq(q, 1, Len(p) + 1) = p \o <<TILDE>>
        /\ q \in ResultPaths

Junks == {NullOid, Blob(0)}

\* C4: determinism.  A second run on the same trees, options and merge
\* driver ends as this one did, with the same result tree and the same
\* unmerged paths, whatever the seed of the hash maps and whatever an
\* uninitialized object id holds.
C4_Determinism ==
    pc = "done" =>
        \A j \in Junks, h \in 0..MaxSeed :
            LET again == merge_ort_nonrecursive_internal(opt, head, merge, merge_base,
                                                         ll, j, h)
            IN  /\ again.pc = "done"
                /\ again.result = result
                /\ again.unmerged = unmerged

\* C5: commutativity of clean results.  When the merge ends clean, the merge
\* with head and merge exchanged ends with the same result tree.
C5_Commutativity ==
    (pc = "done" /\ clean = 1) =>
        \A j \in Junks :
            LET swapped == merge_ort_nonrecursive_internal(opt, merge, head, merge_base,
                                                           ll, j, seed)
            IN  swapped.pc = "done" /\ swapped.result = result

\* the content merge that process_entry runs for the entry ci fails
ContentMergeFails(ci) ==
    /\ ci.ci /\ ~ci.clean /\ ci.match_mask = 0 /\ ci.filemask >= 6
    /\ handle_content_merge(opt, ci.stages[1], ci.stages[2], ci.stages[3],
                            ci.pathnames, opt.call_depth * 2, ll, junk).failed

\* C6: a failed content merge.  When process_entries resolves an entry whose
\* content merge fails, the entry ends unclean and in unmerged, an error is
\* reported, and every other unclean entry is still processed.
C6_FailureUnclean ==
    [][pc = "renamed" =>
          \A p \in DOMAIN paths : ContentMergeFails(paths[p]) =>
              /\ pc' = "done"
              /\ ~paths'[p].clean
              /\ p \in unmerged'
              /\ Len(obuf') > Len(obuf)
              /\ \A q \in DOMAIN paths : ~paths[q].clean => paths'[q].processed]_vars

\* pairs i and i + 1 rename one source to two different destinations
OneToTwo(i) ==
    /\ i + 1 <= Len(pairs)
    /\ Str(pairs[i].one) = Str(pairs[i + 1].one)
    /\ Str(pairs[i].two) # Str(pairs[i + 1].two)

\* C8: rename/rename(1to2).  When head renames f to g and merge renames f to
\* h, then after the renames g, h and f are flagged path_conflict and the
\* stages of g and h hold the one content merge, and after the merge it is
\* unclean, g and h are in unmerged and f is not in the result tree.
C8_RenameRename ==
    \A i \in 1..Len(pairs) : OneToTwo(i) =>
        LET f == Str(pairs[i].one)
            g == Str(pairs[i].two)
            h == Str(pairs[i + 1].two)
        IN  /\ pc \in {"renamed", "done"} =>
                /\ paths[g].path_conflict /\ paths[h].path_conflict
                /\ paths[f].path_conflict
                /\ paths[g].stages[2] = paths[h].stages[3]
            /\ pc = "done" =>
                /\ clean = 0
                /\ g \in unmerged /\ h \in unmerged
                /\ f \notin ResultPaths

IsDir(t, p) == \E x \in DOMAIN t : Under(p, x)
PathsOf(oid) == {f[1] : f \in TreeFiles(oid)}

\* p~label with the '/' of the label flattened, and _0 added when that name
\* is a key of paths already
DerivedName(p, label) ==
    LET flat == [i \in 1..Len(label) |->
                    IF label[i] = SLASH THEN UNDERSCORE ELSE label[i]]
        q == p \o <<TILDE>> \o flat
    IN  IF q \in DOMAIN paths THEN q \o <<UNDERSCORE, DIGIT0>> ELSE q

\* the step moves the file at p to the name derived from label
MovedTo(p, label) ==
    LET q == DerivedName(p, label)
    IN  /\ pc' = "done"
        /\ q \notin DOMAIN paths
        /\ q \in DOMAIN paths'
        /\ q \in unmerged'
        /\ clean' = 0
        /\ p \notin PathsOf(result')
        /\ \E x \in PathsOf(result') : Under(p, x)
        /\ q \in PathsOf(result')

\* C9: D/F conflict as stated.  When p is a file in one of head and merge
\* and a directory in the other, and the directory p has a tree after its
\* children are merged, process_entries moves the file to p~<label of the
\* file's side>, a name that was no key of paths, records it in unmerged,
\* keeps the directory at p in the result tree and ends unclean.
C9_DirectoryFile ==
    [][pc = "renamed" =>
          \A p \in DOMAIN paths' :
              (/\ \/ p \in DOMAIN head /\ IsDir(merge, p)
                  \/ p \in DOMAIN merge /\ IsDir(head, p)
               /\ paths'[p].result.mode = S_IFDIR)
              => MovedTo(p, IF IsDir(head, p) THEN opt.branch2 ELSE opt.branch1)]_vars

\* C9: D/F conflict as the code has it.  When process_entries resolves an
\* entry p flagged df_conflict that still has a file of head or merge
\* matching no other stage, and the directory p has a tree after its
\* children are merged, the file is moved to p~<label of the file's side>, a
\* name that was no key of paths, is recorded in unmerged, the directory
\* keeps p in the result tree and the merge ends unclean.
C9_FileMoved ==
    [][pc = "renamed" =>
          \A p \in DOMAIN paths :
              (/\ paths[p].ci /\ ~paths[p].clean /\ paths[p].df_conflict
               /\ paths[p].filemask \notin {0, 1} /\ paths[p].match_mask = 0
               /\ paths'[p].result.mode = S_IFDIR)
              => MovedTo(p, IF Bit(paths[p].dirmask, 1) THEN opt.branch2
                            ELSE opt.branch1)]_vars

C9_Witness ==
    /\ pc = "done"
    /\ p_p \in DOMAIN merge /\ p_px \in DOMAIN head
    /\ (p_p \o <<TILDE, 98, UNDERSCORE, 66>>) \in unmerged
    /\ p_px \in ResultPaths

\* the renames of side out of directories, as <<pair, old and new directory>>
Portions(side) ==
    LET q == get_diffpairs(opt, merge_base, side)
    IN  {<<i, get_renamed_dir_portion(Str(q[i].one), Str(q[i].two))>> :
            i \in {j \in 1..Len(q) : q[j].status = "R"}}

Received(side, D, N) ==
    Cardinality({r \in Portions(side) : r[2] = [old_dir |-> D, new_dir |-> N]})

Candidates(side, D) == {r[2].new_dir : r \in {t \in Portions(side) : t[2].old_dir = D}}

Majority(side, D, N) ==
    /\ N \in Candidates(side, D)
    /\ \A M \in Candidates(side, D) \ {N} : Received(side, D, N) > Received(side, D, M)

Tied(side, D) ==
    /\ Candidates(side, D) # {}
    /\ \A N \in Candidates(side, D) : ~Majority(side, D, N)

AddedIn(side, D) ==
    {p \in (DOMAIN side) \ (DOMAIN merge_base) : Parent(p) = D /\ Len(D) > 0}

Split == "CONFLICT (directory rename split)"

MajorityRule(side, other) ==
    \A D \in {Parent(p) : p \in DOMAIN merge_base} :
        /\ \A N \in Candidates(side, D) : Majority(side, D, N) =>
               \A p \in AddedIn(other, D) :
                   LET q == In(N, Basename(p))
                   IN  q \notin DOMAIN side \cup DOMAIN other \cup DOMAIN merge_base
                       => Running \/ (/\ pc = "done"
                                      /\ q \in ResultPaths /\ p \notin ResultPaths)
        /\ Tied(side, D) =>
               \A p \in AddedIn(other, D) :
                   Running \/ (/\ pc = "done" /\ p \in ResultPaths
                               /\ \E i \in 1..Len(obuf) : obuf[i] = Split)

\* C10: directory-rename majority rule.  For each directory D of merge_base
\* out of which one side renamed files: when one candidate directory N
\* received more of these renames than every other, a file D/x added by the
\* other side ends at N/x in the result tree and not at D/x, unless N/x is
\* taken; when no candidate has a majority, D/x stays at D/x and the split
\* diagnostic is in the output.
C10_MajorityRule == MajorityRule(head, merge) /\ MajorityRule(merge, head)

\* scenario S3: side1 moves d/a and d/b to e and keeps d/c, side2 adds d/x
S3 ==
    /\ merge_base = Placed([f \in {n_a, n_b, n_c} |-> dir_d], 1)
    /\ head = Placed([f \in {n_a, n_b, n_c} |-> IF f = n_c THEN dir_d ELSE dir_e], 1)
    /\ merge = With(merge_base, In(dir_d, n_x), Reg(2))

\* C11: in scenario S3 the merge ends clean and its result tree holds e/a,
\* e/b, e/x and d/c: the file x that side2 added to d is placed at e/x.
C11_ScenarioS3 ==
    S3 => Running \/ (/\ pc = "done" /\ clean = 1
                      /\ ResultPaths = {In(dir_e, n_a), In(dir_e, n_b),
                                        In(dir_e, n_x), In(dir_d, n_c)})

\* the input tree of stage i: 1 the merge base, 2 head, 3 merge
StageTree(i) == <<merge_base, head, merge>>[i]

\* the stage i of the entry ci is non-null and is what the input tree of the
\* stage holds at the stage's pathname
StageMatches(ci, i) ==
    /\ ci.stages[i].mode # 0
    /\ ci.stages[i].oid # NullOid
    /\ Str(ci.pathnames[i]) \in DOMAIN StageTree(i)
    /\ StageTree(i)[Str(ci.pathnames[i])] = ci.stages[i]

Rewritten(ci, i) ==
    \/ \E k \in 1..Len(pairs) :
           /\ pairs[k].status = "R"
           /\ Str(pairs[k].two) = Str(ci.pathnames[i])
           /\ pairs[k].score = i - 1
    \/ ci.df_conflict

C13_RemoveAbsent ==
    [][(/\ strmap_call'.op = "remove"
        /\ strmap_call'.str \notin DOMAIN strmap.entries)
       => (strmap' = strmap /\ strmap_pc' = "ok")]_vars

\* the version the tree t has at p, null when t has no file p
VersionAt(t, p) == IF p \in DOMAIN t THEN t[p] ELSE NullVersion

\* p names no directory of t and lies in no file of t
FileOrAbsent(t, p) == \A q \in DOMAIN t : ~Under(p, q) /\ ~Under(q, p)

\* a rename pair of the combined queue, explicit or implied by a directory
\* rename, has p as its source or its destination
Touched(p) ==
    \E k \in 1..Len(pairs) : Str(pairs[k].one) = p \/ Str(pairs[k].two) = p

\* the file the result tree has at p, null when it has none
ResultAt(p) ==
    IF p \in ResultPaths
    THEN (CHOOSE f \in TreeFiles(result) : f[1] = p)[2]
    ELSE NullVersion

\* the path p, unchanged between the base and the tree same, ends as the
\* tree other has it
OneSided(p, same, other) ==
    (/\ FileOrAbsent(merge_base, p) /\ FileOrAbsent(head, p)
     /\ FileOrAbsent(merge, p)
     /\ ~Touched(p)
     /\ VersionAt(same, p) = VersionAt(merge_base, p))
    => /\ ResultAt(p) = VersionAt(other, p)
       /\ p \notin unmerged
       /\ p \in DOMAIN paths => paths[p].clean

\* C14: one-sided change.  A path that is a file or absent in each tree,
\* that no rename touches and that one side has as the base has it, ends
\* clean with the other side's version, and is absent from the result tree
\* exactly when the other side lacks it.
C14_OneSided ==
    pc = "done" =>
        \A p \in InputPaths : OneSided(p, head, merge) /\ OneSided(p, merge, head)

\* p is the derived name that process_entry gave to a file moved out of the
\* way of a directory
Derived(p) == p \in DOMAIN paths /\ paths[p].key.org = "unique_path"

\* C14 as amended: the one-sided change rule holds for every path that is
\* not the derived name of a file moved aside for a directory; a derived
\* name may fall on a path that one side deleted and the other left alone.
C14_OneSidedKept ==
    pc = "done" =>
        \A p \in InputPaths :
            Derived(p) \/ (OneSided(p, head, merge) /\ OneSided(p, merge, head))

\* a merge that returned with a one-sided edit, a one-sided deletion and a
\* one-sided addition
C14_Witness ==
    /\ pc = "done"
    /\ \E p \in InputPaths :
           /\ ~Derived(p) /\ ~Touched(p)
           /\ p \in DOMAIN merge_base /\ p \in DOMAIN head /\ p \in DOMAIN merge
           /\ head[p] = merge_base[p] /\ merge[p] # merge_base[p]
           /\ ResultAt(p) = merge[p]
    /\ \E p \in InputPaths :
           /\ ~Derived(p) /\ ~Touched(p)
           /\ p \in DOMAIN merge_base /\ p \notin DOMAIN head
           /\ p \in DOMAIN merge /\ merge[p] = merge_base[p]
           /\ p \notin ResultPaths

\* the tree of the side that did not do the rename of the pair
OtherTree(pair) == IF pair.score = 1 THEN merge ELSE head

\* pair k of the combined queue is a rename by one side only whose source
\* the other side still has and whose destination the other side lacks
OrdinaryRename(k) ==
    /\ pairs[k].status = "R"
    /\ Str(pairs[k].one) \in DOMAIN OtherTree(pairs[k])
    /\ FileOrAbsent(OtherTree(pairs[k]), Str(pairs[k].two))
    /\ Str(pairs[k].two) \notin DOMAIN OtherTree(pairs[k])
    /\ \A j \in 1..Len(pairs) : j # k => pairs[j].one # pairs[k].one

\* the entries of the source and the destination of pair k after
\* process_renames: the destination holds the base and the other side's
\* stage of the source under the source's name, the source is null and clean
StagesMoved(k) ==
    LET old == Str(pairs[k].one)
        new == Str(pairs[k].two)
        other == 3 - pairs[k].score
    IN  /\ new \in DOMAIN paths /\ old \in DOMAIN paths
        /\ paths[new].stages[1] = merge_base[old]
        /\ paths[new].stages[other + 1] = OtherTree(pairs[k])[old]
        /\ Bit(paths[new].filemask, 0) /\ Bit(paths[new].filemask, other)
        /\ Str(paths[new].pathnames[1]) = old
        /\ Str(paths[new].pathnames[other + 1]) = old
        /\ paths[old].is_null /\ paths[old].clean

\* side1 renames the unchanged f to g while side2 edits f
RenameAndEdit ==
    /\ p_f \in DOMAIN merge_base /\ p_g \notin DOMAIN merge_base
    /\ head = [q \in {p_g} |-> merge_base[p_f]]
    /\ DOMAIN merge = DOMAIN merge_base
    /\ merge[p_f] # merge_base[p_f]
    /\ \A q \in DOMAIN merge : q # p_f => merge[q] = merge_base[q]
    /\ DOMAIN merge_base = {p_f}

\* C15: ordinary rename.  After the rename processor, the destination of a
\* rename that only one side made, whose source the other side still has
\* and whose destination the other side lacks, holds the base stage and the
\* other side's stage of the source with their pathnames, and the source is
\* null and clean; a merge of side1 renaming an unchanged f to g with side2
\* editing f ends clean with g holding side2's content and no f.
C15_OrdinaryRename ==
    /\ pc = "renamed" => \A k \in 1..Len(pairs) : OrdinaryRename(k) => StagesMoved(k)
    /\ RenameAndEdit =>
           Running \/ (/\ pc = "done" /\ clean = 1
                       /\ ResultAt(p_g) = merge[p_f]
                       /\ p_f \notin ResultPaths)

\* C15 as amended: the stages move when the other side has changed the
\* source, which is then a conflict entry of paths; a source that the other
\* side left as the base has it may be no key of paths, and its pair is
\* then skipped.
C15_RenameOfChanged ==
    /\ pc = "renamed" =>
           \A k \in 1..Len(pairs) :
               (/\ OrdinaryRename(k)
                /\ OtherTree(pairs[k])[Str(pairs[k].one)] # merge_base[Str(pairs[k].one)])
               => StagesMoved(k)
    /\ RenameAndEdit =>
           Running \/ (/\ pc = "done" /\ clean = 1
                       /\ ResultAt(p_g) = merge[p_f]
                       /\ p_f \notin ResultPaths)

\* side1 has renamed the unchanged f to g, side2 has edited f, and the
\* merge returned after the rename processor handled the pair
C15_Witness ==
    /\ pc = "done"
    /\ RenameAndEdit
    /\ \E k \in 1..Len(pairs) : OrdinaryRename(k) /\ pairs[k].score = 1

\* the keys of paths in the order process_entries sorts them
Plist == SortStrings(DOMAIN paths)

\* the tree writer after the loop of process_entries has visited the
\* entries Plist[Len(Plist)] down to Plist[k]
WriterAt(k) ==
    EntriesFrom(opt, MergeState, SubSeq(Plist, k, Len(Plist)),
                Len(Plist) - k + 1, ll, junk)

\* the containing directory of every key of paths is a key, or the root
ParentsAreKeys ==
    \A p \in DOMAIN paths : Parent(p) = <<>> \/ Parent(p) \in DOMAIN paths

\* C16: when every entry's containing directory is a key of paths or the
\* root, the loop of process_entries ends with exactly one frame, the root
\* frame with offset 0, so the BUG is not reached and the root tree is
\* written.
C16_FinalFrame ==
    (pc = "renamed" /\ DOMAIN paths # {} /\ ParentsAreKeys) =>
        \/ WriterAt(1).pc # "ok"
        \/ /\ Len(WriterAt(1).offsets) = 1
           /\ Str(WriterAt(1).offsets[1].ptr) = <<>>
           /\ WriterAt(1).offsets[1].util = 0
           /\ TreeWritten(WriterAt(1)).pc = "ok"

\* the tree writer when the loop of process_entries comes to visit Plist[k]:
\* the entries after it are done and write_completed_directories has run
\* for the directory of Plist[k]
WriterBefore(k) ==
    write_completed_directories(WriterAt(k + 1),
                                WriterAt(k + 1).paths[Plist[k]].directory_name)

\* the non-null entries of the paths of writer state w whose containing
\* directory is dir
Children(w, dir) ==
    {q \in DOMAIN w.paths : Str(w.paths[q].directory_name) = dir /\ ~w.paths[q].is_null}

\* the tree object made of exactly those entries
TreeOfChildren(w, dir) ==
    LET names == SortStrings(Children(w, dir))
    IN  write_tree([i \in 1..Len(names) |->
                       [name |-> SubSeq(names[i],
                                        w.paths[names[i]].basename_offset + 1,
                                        Len(names[i])),
                        v |-> w.paths[names[i]].result]], 0)

\* directories that tree collection recursed into and that have entries
DirKeys == {Str(paths[q].directory_name) : q \in DOMAIN paths} \cap DOMAIN paths

ClosedBefore(k) ==
    /\ WriterBefore(k).pc = "ok"
    /\ Str(WriterBefore(k).last_directory) # Plist[k]
    /\ \A i \in 1..Len(WriterBefore(k).offsets) :
           Str(WriterBefore(k).offsets[i].ptr) # Plist[k]
    /\ IF Children(WriterBefore(k), Plist[k]) = {}
       THEN WriterBefore(k).paths[Plist[k]].is_null
       ELSE WriterBefore(k).paths[Plist[k]].result =
                [mode |-> S_IFDIR, oid |-> TreeOfChildren(WriterBefore(k), Plist[k])]

\* C17: in process_entries every directory that is a key of paths has its
\* frame closed, and its tree written from exactly the non-null entries it
\* contains, before its own entry is visited.
C17_ClosedBeforeVisit ==
    pc = "renamed" =>
        \A k \in 1..Len(Plist) :
            (Plist[k] \in DirKeys /\ WriterAt(k + 1).pc = "ok") => ClosedBefore(k)

\* every frame of writer state w starts inside versions
FramesWithin(w) == \A i \in 1..Len(w.offsets) : w.offsets[i].util <= Len(w.versions)

\* write_completed_directories closes last_directory when Plist[k] is visited
Closes(k) ==
    /\ WriterAt(k + 1).pc = "ok"
    /\ WriterAt(k + 1).last_directory # NullPtr
    /\ WriterAt(k + 1).last_directory # WriterAt(k + 1).paths[Plist[k]].directory_name
    /\ ~StrNEq(Str(WriterAt(k + 1).paths[Plist[k]].directory_name),
               Str(WriterAt(k + 1).last_directory),
               Len(Str(WriterAt(k + 1).last_directory)))
    /\ WriterBefore(k).pc = "ok"

\* the frames below the top one stay, and the top one is gone or replaced by
\* the frame of the directory now current
OnePopped(before, after) ==
    /\ before.offsets # <<>>
    /\ Len(after.offsets) \in {Len(before.offsets) - 1, Len(before.offsets)}
    /\ SubSeq(after.offsets, 1, Len(before.offsets) - 1) =
           SubSeq(before.offsets, 1, Len(before.offsets) - 1)
    /\ Len(after.offsets) = Len(before.offsets) =>
           /\ after.offsets[Len(after.offsets)].ptr = after.last_directory
           /\ after.offsets[Len(after.offsets)].util = before.offsets[Len(before.offsets)].util

\* versions is cut back to the closed frame's offset and gets one entry,
\* the basename of the closed directory with its tree, inside the top frame
OneAppended(before, after) ==
    /\ after.offsets # <<>>
    /\ after.versions =
           Append(SubSeq(before.versions, 1, before.offsets[Len(before.offsets)].util),
                  [name |-> Basename(Str(before.last_directory)),
                   v |-> after.paths[Str(before.last_directory)].result])
    /\ after.paths[Str(before.last_directory)].result.mode = S_IFDIR
    /\ after.offsets[Len(after.offsets)].util < Len(after.versions)
    /\ Str(after.offsets[Len(after.offsets)].ptr) = Parent(Str(before.last_directory))

\* C18: at every step of the tree writer each frame's offset is at most the
\* length of versions, and every close of a directory pops exactly one
\* frame and appends exactly one entry, the directory's basename with its
\* new tree, to the parent frame.
C18_Frames ==
    pc = "renamed" =>
        \A k \in 1..Len(Plist) :
            /\ WriterAt(k + 1).pc = "ok" => FramesWithin(WriterBefore(k))
            /\ WriterAt(k).pc = "ok" => FramesWithin(WriterAt(k))
            /\ Closes(k) => /\ OnePopped(WriterAt(k + 1), WriterBefore(k))
                            /\ OneAppended(WriterAt(k + 1), WriterBefore(k))

\* the closed directory had no entry: it is marked null and versions is as
\* it was
NoneAppended(before, after) ==
    /\ before.offsets # <<>>
    /\ before.offsets[Len(before.offsets)].util = Len(before.versions)
    /\ after.versions = before.versions
    /\ after.paths[Str(before.last_directory)].is_null

\* C18 as amended: the close of a directory with no recorded entry appends
\* nothing and marks the directory null; the close of any other directory
\* appends exactly one entry.
C18_FramesOfWrittenTrees ==
    pc = "renamed" =>
        \A k \in 1..Len(Plist) :
            /\ WriterAt(k + 1).pc = "ok" => FramesWithin(WriterBefore(k))
            /\ WriterAt(k).pc = "ok" => FramesWithin(WriterAt(k))
            /\ Closes(k) =>
                   /\ OnePopped(WriterAt(k + 1), WriterBefore(k))
                   /\ \/ NoneAppended(WriterAt(k + 1), WriterBefore(k))
                      \/ /\ ~NoneAppended(WriterAt(k + 1), WriterBefore(k))
                         /\ OneAppended(WriterAt(k + 1), WriterBefore(k))
                         /\ WriterAt(k + 1).offsets[Len(WriterAt(k + 1).offsets)].util
                                < Len(WriterAt(k + 1).versions)

\* a directory with entries and a directory without any are both closed
C18_Witness ==
    /\ pc = "renamed"
    /\ \E k \in 1..Len(Plist) :
           Closes(k) /\ OneAppended(WriterAt(k + 1), WriterBefore(k))
    /\ \E k \in 1..Len(Plist) :
           Closes(k) /\ NoneAppended(WriterAt(k + 1), WriterBefore(k))

\* the proper ancestor directories of path, the root excluded
RECURSIVE Ancestors(_)
Ancestors(path) ==
    IF Parent(path) = <<>> THEN {} ELSE {Parent(path)} \cup Ancestors(Parent(path))

\* pair k of the combined queue went through
\* apply_directory_rename_modifications
Spliced(k) == pairs[k].two.org = "new_path"

\* C19: apply_directory_rename_modifications terminates for every new_path,
\* one at the top level included; afterwards every proper ancestor of
\* new_path is a key of paths, the moved entry is at new_path, and the old
\* path of an added file is no key.
C19_ApplyTerminates ==
    /\ pc # "hang"
    /\ pc = "renamed" =>
           \A k \in 1..Len(pairs) :
               Spliced(k) =>
                   /\ Ancestors(Str(pairs[k].two)) \subseteq DOMAIN paths
                   /\ Str(pairs[k].two) \in DOMAIN paths
                   /\ pairs[k].status = "A" => Str(pairs[k].one) \notin DOMAIN paths

\* C20: in every reachable state every conflict entry of paths has
\* filemask & dirmask == 0.
C20_MasksDisjoint ==
    \A p \in DOMAIN paths :
        paths[p].ci => MaskAnd(paths[p].filemask, paths[p].dirmask) = 0

\* p is the destination of a rename pair, or the name process_entry derived
\* from one for the file it moved aside
RenamedOnto(p) ==
    \E k \in 1..Len(pairs) :
        /\ pairs[k].status = "R"
        /\ \/ Str(pairs[k].two) = p
           \/ /\ Derived(p)
              /\ Len(p) > Len(Str(pairs[k].two))
              /\ SubSeq(p, 1, Len(Str(pairs[k].two)) + 1) = Str(pairs[k].two) \o <<TILDE>>

\* C20 as amended: the masks of a conflict entry are disjoint unless the
\* rename processor has moved stages into it; after tree collection they
\* are disjoint for every entry.
C20_MasksDisjointUnlessRenamedOnto ==
    \A p \in DOMAIN paths :
        paths[p].ci =>
            \/ MaskAnd(paths[p].filemask, paths[p].dirmask) = 0
            \/ pc # "collected" /\ RenamedOnto(p)

\* after the rename processor a rename destination that is a directory on
\* some side has a bit in both masks, next to an entry whose masks are
\* disjoint
C20_Witness ==
    /\ pc = "renamed"
    /\ \E p \in DOMAIN paths :
           /\ paths[p].ci /\ RenamedOnto(p)
           /\ MaskAnd(paths[p].filemask, paths[p].dirmask) # 0
    /\ \E p \in DOMAIN paths :
           /\ paths[p].ci /\ paths[p].filemask # 0
           /\ MaskAnd(paths[p].filemask, paths[p].dirmask) = 0

\* the paths of the result tree: its files and the directories above them
EmittedPaths == ResultPaths \cup UNION {Ancestors(p) : p \in ResultPaths}

\* C21: in every reachable state an entry with is_null set has clean set,
\* and no null entry, file or directory, is in the emitted tree.
C21_NullIsClean ==
    /\ \A p \in DOMAIN paths : paths[p].is_null => paths[p].clean
    /\ pc = "done" => \A p \in DOMAIN paths : paths[p].is_null => p \notin EmittedPaths

\* C21 as amended: a null entry is clean unless it is the source of a
\* rename/rename(1to2), deleted on both sides, or a directory that the tree
\* writer found empty; no null entry is in the emitted tree as a file, and a
\* null entry whose path is in the tree is a directory another side has.
C21_NullIsCleanOrEmptied ==
    /\ \A p \in DOMAIN paths :
           paths[p].is_null =>
               \/ paths[p].clean
               \/ paths[p].path_conflict /\ paths[p].filemask = 1
               \/ paths[p].dirmask # 0 /\ pc \in {"done", "abort"}
    /\ pc = "done" =>
           \A p \in DOMAIN paths :
               paths[p].is_null =>
                   /\ p \notin ResultPaths
                   /\ p \in EmittedPaths =>
                          paths[p].dirmask # 0 /\ paths[p].result.mode = S_IFDIR

\* the merge returned with a file deleted on both sides, null and clean,
\* inside a directory that the tree writer found empty, null and not clean
C21_Witness ==
    /\ pc = "done"
    /\ \E p \in DOMAIN paths :
           /\ paths[p].is_null /\ ~paths[p].clean /\ paths[p].dirmask # 0
           /\ \E q \in DOMAIN paths :
                  /\ Str(paths[q].directory_name) = p
                  /\ paths[q].is_null /\ paths[q].clean /\ q \notin EmittedPaths

\* the three name_entries the walked trees have at the path p
SidesAt(p) == <<NameEntry(merge_base, p), NameEntry(head, p), NameEntry(merge, p)>>

\* two of the three trees have the same non-null (mode, oid) at p
TwoAgree(p) ==
    \E i, j \in 1..3 :
        i < j /\ SidesAt(p)[i].mode # 0 /\ SidesAt(p)[i] = SidesAt(p)[j]

\* C22: for every conflict entry the tree collector creates, match_mask is
\* a subset of filemask | dirmask, and match_mask is 0 exactly when no two
\* of the three sides have the same (mode, oid) at the path.
C22_MatchMask ==
    pc = "collected" =>
        \A p \in DOMAIN paths :
            paths[p].ci =>
                /\ MaskAnd(paths[p].match_mask,
                           MaskOr(paths[p].filemask, paths[p].dirmask)) = paths[p].match_mask
                /\ paths[p].match_mask = 0 <=> ~TwoAgree(p)

\* two of the stages recorded for p hold the same non-null version
StagesAgree(p) ==
    \E i, j \in 1..3 :
        i < j /\ paths[p].stages[i].mode # 0 /\ paths[p].stages[i] = paths[p].stages[j]

\* the two sides that match_mask names have the same non-null version at p
MaskedAgree(p) ==
    \E i, j \in 1..3 :
        /\ i < j
        /\ paths[p].match_mask = 2 ^ (i - 1) + 2 ^ (j - 1)
        /\ SidesAt(p)[i].mode # 0
        /\ SidesAt(p)[i] = SidesAt(p)[j]

\* C22 as amended: match_mask is only set for an entry with a file on some
\* side, and it names two sides that agree; for an entry that is a
\* directory on no side it is 0 exactly when no two of the stages recorded
\* for the entry agree.
C22_MatchMaskOfStages ==
    pc = "collected" =>
        \A p \in DOMAIN paths :
            paths[p].ci =>
                /\ MaskAnd(paths[p].match_mask,
                           MaskOr(paths[p].filemask, paths[p].dirmask)) = paths[p].match_mask
                /\ paths[p].match_mask # 0 => paths[p].filemask # 0 /\ MaskedAgree(p)
                /\ paths[p].dirmask = 0 =>
                       (paths[p].match_mask = 0 <=> ~StagesAgree(p))

\* tree collection left an entry whose match_mask names the base and the
\* side that agrees with it, next to a file entry with no two stages alike
C22_Witness ==
    /\ pc = "collected"
    /\ \E p \in DOMAIN paths :
           paths[p].ci /\ paths[p].match_mask \in {3, 5} /\ MaskedAgree(p)
    /\ \E p \in DOMAIN paths :
           /\ paths[p].ci /\ paths[p].filemask # 0 /\ paths[p].dirmask = 0
           /\ paths[p].match_mask = 0 /\ ~StagesAgree(p)

UnderBase(path) == \E d \in possible_dir_rename_bases : Under(d, path)

\* the renames of side that add to the tally of get_directory_renames in
\* the call detect_and_process_renames makes
Tallied(side) ==
    IF ~opt.detect_renames \/ ~need_dir_renames(opt, possible_dir_rename_bases)
    THEN {}
    ELSE {pr \in {get_diffpairs(opt, merge_base, side)[i] :
                     i \in 1..Len(get_diffpairs(opt, merge_base, side))} :
             /\ pr.status = "R"
             /\ get_renamed_dir_portion(Str(pr.one), Str(pr.two)) # NoDirs}

\* C24: a rename whose source path has no leading directory in
\* possible_dir_rename_bases adds to no directory's tally and causes no
\* directory rename to be applied.
C24_OnlyUnderBases ==
    /\ pc = "collected" =>
           \A pr \in Tallied(head) \cup Tallied(merge) : UnderBase(Str(pr.one))
    /\ pc = "renamed" =>
           \A k \in 1..Len(pairs) : Spliced(k) => UnderBase(Str(pairs[k].one))


\* opt is as the call of merge_ort_internal at depth d found it
Restored(d) ==
    /\ opt.call_depth = d
    /\ opt.branch1 = IF d = 0 THEN branchA ELSE temp_branch1
    /\ opt.branch2 = IF d = 0 THEN branchB ELSE temp_branch2

\* C25: in the recursion driver, once the recursive merge of an extra
\* ancestor has returned, call_depth and branch1/branch2 are what they were
\* before the call, and they are so on every return of the driver, the
\* return after a failed recursive call included.
C25_DriverRestores ==
    /\ (stack # <<>> /\ Top.at \in {"enter", "loop", "merging"}) => Restored(Len(stack) - 1)
    /\ retval # NoRet => Restored(Len(stack))


\* regular file before submodule before symbolic link
TypeRank(mode) ==
    IF S_ISREG(mode) THEN 3 ELSE IF S_ISGITLINK(mode) THEN 2 ELSE 1

\* the entry of p went to the content merge with versions of two types
MixedTypes(p) ==
    /\ p \in DOMAIN head /\ p \in DOMAIN merge /\ p \in DOMAIN paths
    /\ paths[p].ci /\ paths[p].match_mask = 0
    /\ FileType(head[p].mode) # FileType(merge[p].mode)

\* C26: when the versions of side1 and side2 that reach the content merge
\* differ in type, the entry is unclean and keeps the version of the higher
\* type, regular file before submodule before symbolic link, whichever side
\* has it.
C26_MixedTypePriority ==
    pc = "done" =>
        \A p \in DOMAIN paths :
            MixedTypes(p) =>
                /\ ~paths[p].clean
                /\ p \in unmerged
                /\ paths[p].result =
                       IF TypeRank(head[p].mode) > TypeRank(merge[p].mode)
                       THEN head[p] ELSE merge[p]


\* C27: the non-recursive merge returns clean = 1 if and only if unmerged is
\* empty when it returns; a diagnostic of directory rename detection does not
\* by itself make the merge unclean.
C27_CleanIffNoUnmerged ==
    pc = "done" => (clean = 1 <=> unmerged = {})


\* the internal merge of the entry point returned -1
InternalFailed ==
    \/ entry.name = "merge_ort" /\ retval = -1
    \/ entry.name = "merge_ort_nonrecursive" /\ clean = -1

\* C28: when the internal merge returns -1, merge_ort_nonrecursive and
\* merge_ort do not call switch_to_merge_result, and they return -1 with the
\* engine state released.
C28_NoSwitchAfterFailure ==
    (entry.at = "returned" /\ InternalFailed) =>
        /\ entry.switched = <<>>
        /\ entry.ret = -1
        /\ entry.priv = "NULL"


\* the non-recursive merge of the outermost call of merge_ort_internal
Outermost == entry.name = "merge_ort" /\ Len(stack) = 1 /\ Top.at = "merging"

\* C29: with more than one merge base, paths, unmerged and
\* possible_dir_rename_bases are empty when a non-recursive merge starts, the
\* outermost one included, whatever the number of merge bases and the nesting
\* of the recursive calls; the outermost merge ends with the unmerged paths
\* and the clean flag that a merge of its three trees from a fresh state has.
C29_MapsEmptyAtStart ==
    /\ (pc = "start" /\ entry.name = "merge_ort") =>
           /\ paths = NoPaths
           /\ unmerged = {}
           /\ possible_dir_rename_bases = {}
    /\ (pc = "done" /\ Outermost) =>
           /\ unmerged = merge_ort_nonrecursive_internal(opt, head, merge, merge_base,
                                                         ll, junk, seed).unmerged
           /\ clean = merge_ort_nonrecursive_internal(opt, head, merge, merge_base,
                                                      ll, junk, seed).clean

\* the outermost merge starts on a virtual ancestor that holds a conflicted
\* blob, after the merge of at least two further merge bases
C29_Witness ==
    /\ pc = "start" /\ Outermost
    /\ Len(entry.args.merge_bases) > 2
    /\ p_f \in DOMAIN merge_base
    /\ merge_base[p_f].oid[1] = 3
    /\ paths = NoPaths /\ unmerged = {}


\* a ref was updated or the index was written
RefsMoved == rebase.branch.updated \/ rebase.HEAD # "onto" \/ rebase.index_written

====
